---- MODULE Spec2Model ----
(***************************************************************************)
(* forsaken-mail-rust: the in-memory message store (src/store.rs), its     *)
(* broadcast event feed, the SMTP delivery path (src/smtp_server.rs) and   *)
(* the long-poll endpoint events/next (src/http_api.rs).                   *)
(*                                                                         *)
(* Strings are sequences of one-character strings, so that trimming,       *)
(* lower-casing and pattern matching are computed as the code computes     *)
(* them.  Time is a wall clock counted in ticks.                           *)
(***************************************************************************)
EXTENDS Integers, Sequences, FiniteSets, TLC

(***************************************************************************)
(* Bounds of the model.                                                    *)
(***************************************************************************)
\* Last tick of the wall clock.
MaxClock == 3
\* Message ids (Uuid::new_v4) handed out over a run.
MaxIds == 3
\* Store::max_messages, a configuration value (config.rs:42, at least 1).
MaxMessages == 2
\* Store::ttl in ticks, a configuration value (config.rs:43, at least 1).
TTL == 1
\* Capacity of the broadcast ring, broadcast::channel(1024) at store.rs:70,
\* scaled down.
Capacity == 1
\* The long-poll timeout, Duration::from_secs(25) at http_api.rs:236, in
\* ticks, scaled down.
PollTimeout == 1

\* Config::max_message_bytes, in bytes.
MaxMessageBytes == 3

\* The longest body, in lines, a caller of read_data_block sends.
MaxLines == 2

\* Longest domain handed to the functions of address.rs.
MaxDomainLen == 2

\* Duration::from_secs(10) of the shutdown timeout, in ticks.
ShutdownWait == 2

\* SMTP connections alive at once.
MaxSessions == 2

\* HTTP requests in flight at once.
MaxInflight == 2

(***************************************************************************)
(* Strings.                                                                *)
(***************************************************************************)
LowerLetters ==
  {"a","b","c","d","e","f","g","h","i","j","k","l","m",
   "n","o","p","q","r","s","t","u","v","w","x","y","z"}

Digits == {"0","1","2","3","4","5","6","7","8","9"}

WhiteSpace == {" ", "\t", "\n", "\r"}

\* u8::to_ascii_lowercase on the upper-case letters.
LowerOf ==
  [c \in {"A","B","C","D","E","F","G","H","I","J","K","L","M",
          "N","O","P","Q","R","S","T","U","V","W","X","Y","Z"} |->
     CASE c = "A" -> "a" [] c = "B" -> "b" [] c = "C" -> "c" [] c = "D" -> "d"
       [] c = "E" -> "e" [] c = "F" -> "f" [] c = "G" -> "g" [] c = "H" -> "h"
       [] c = "I" -> "i" [] c = "J" -> "j" [] c = "K" -> "k" [] c = "L" -> "l"
       [] c = "M" -> "m" [] c = "N" -> "n" [] c = "O" -> "o" [] c = "P" -> "p"
       [] c = "Q" -> "q" [] c = "R" -> "r" [] c = "S" -> "s" [] c = "T" -> "t"
       [] c = "U" -> "u" [] c = "V" -> "v" [] c = "W" -> "w" [] c = "X" -> "x"
       [] c = "Y" -> "y" [] c = "Z" -> "z"]

to_ascii_lowercase(s) ==
  [i \in 1..Len(s) |-> IF s[i] \in DOMAIN LowerOf THEN LowerOf[s[i]] ELSE s[i]]

RECURSIVE trim_start(_)
trim_start(s) ==
  IF s # <<>> /\ Head(s) \in WhiteSpace THEN trim_start(Tail(s)) ELSE s

RECURSIVE trim_end(_)
trim_end(s) ==
  IF s # <<>> /\ s[Len(s)] \in WhiteSpace
    THEN trim_end(SubSeq(s, 1, Len(s) - 1))
    ELSE s

trim(s) == trim_end(trim_start(s))

RECURSIVE trim_start_matches(_, _)
trim_start_matches(s, c) ==
  IF s # <<>> /\ Head(s) = c THEN trim_start_matches(Tail(s), c) ELSE s

RECURSIVE trim_end_matches(_, _)
trim_end_matches(s, c) ==
  IF s # <<>> /\ s[Len(s)] = c
    THEN trim_end_matches(SubSeq(s, 1, Len(s) - 1), c)
    ELSE s

\* u8::to_ascii_uppercase on the lower-case letters.
to_ascii_uppercase(s) ==
  [i \in 1..Len(s) |->
     IF s[i] \in LowerLetters
       THEN CHOOSE c \in DOMAIN LowerOf : LowerOf[c] = s[i]
       ELSE s[i]]

starts_with(s, prefix) ==
  Len(s) >= Len(prefix) /\ SubSeq(s, 1, Len(prefix)) = prefix

contains(s, c) == \E i \in 1..Len(s) : s[i] = c

\* str::find: the first index holding c, 0 when there is none.
find(s, c) ==
  IF contains(s, c)
    THEN CHOOSE i \in 1..Len(s) : s[i] = c /\ \A j \in 1..(i-1) : s[j] # c
    ELSE 0

\* split_whitespace().next() of a string that does not start with white space.
first_token(s) ==
  LET ws == {i \in 1..Len(s) : s[i] \in WhiteSpace}
  IN IF ws = {} THEN s
     ELSE SubSeq(s, 1, (CHOOSE i \in ws : \A j \in ws : i <= j) - 1)

\* str::rfind: the last index holding c, 0 when there is none.
rfind(s, c) ==
  IF contains(s, c)
    THEN CHOOSE i \in 1..Len(s) : s[i] = c /\ \A j \in (i+1)..Len(s) : s[j] # c
    ELSE 0

(***************************************************************************)
(* address.rs                                                              *)
(***************************************************************************)
Err(msg) == [ok |-> FALSE, err |-> msg]

\* MAILBOX_PATTERN  ^[a-z0-9][a-z0-9._+\-]{0,63}$
MAILBOX_PATTERN_is_match(s) ==
  /\ Len(s) >= 1
  /\ Len(s) <= 64
  /\ s[1] \in LowerLetters \cup Digits
  /\ \A i \in 2..Len(s) : s[i] \in LowerLetters \cup Digits \cup {".", "_", "+", "-"}

validate_mailbox(mailbox) == MAILBOX_PATTERN_is_match(mailbox)

\* normalize without its two bracket trims.
normalize_keeping_brackets(input) == trim(input)

normalize(input) ==
  trim_end_matches(trim_start_matches(trim(input), "<"), ">")

parse_email(input) ==
  LET value == normalize(input)
      at    == rfind(value, "@")
  IN IF at = 0 THEN Err("invalid email address")
     ELSE IF at = 1 \/ at = Len(value) THEN Err("invalid email address")
     ELSE LET mailbox == to_ascii_lowercase(trim(SubSeq(value, 1, at - 1)))
              domain  == to_ascii_lowercase(trim(SubSeq(value, at + 1, Len(value))))
          IN IF ~validate_mailbox(mailbox) THEN Err("invalid mailbox")
             ELSE IF domain = <<>> THEN Err("invalid email domain")
             ELSE [ok |-> TRUE, mailbox |-> mailbox, domain |-> domain]

normalize_mailbox(input, expected_domain_in) ==
  LET value == normalize(input)
      expected_domain == to_ascii_lowercase(trim(expected_domain_in))
  IN IF contains(value, "@")
       THEN LET p == parse_email(value)
            IN IF ~p.ok THEN p
               ELSE IF expected_domain # <<>> /\ p.domain # expected_domain
                 THEN Err("email domain must be")
               ELSE [ok |-> TRUE, mailbox |-> p.mailbox,
                     address |-> p.mailbox \o <<"@">> \o p.domain]
       ELSE LET mailbox == to_ascii_lowercase(trim(value))
            IN IF ~validate_mailbox(mailbox) THEN Err("invalid mailbox")
               ELSE IF expected_domain = <<>>
                 THEN [ok |-> TRUE, mailbox |-> mailbox, address |-> mailbox]
               ELSE [ok |-> TRUE, mailbox |-> mailbox,
                     address |-> mailbox \o <<"@">> \o expected_domain]

(***************************************************************************)
(* config.rs                                                               *)
(***************************************************************************)
\* Config::domain (MAIL_DOMAIN), already lower-cased by normalize_domain.
cfg_domain == <<"x">>

DEFAULT_MAILBOX_BLACKLIST ==
  { <<"a","d","m","i","n">>, <<"m","a","s","t","e","r">>, <<"i","n","f","o">>,
    <<"m","a","i","l">>, <<"w","e","b","a","d","m","i","n">>,
    <<"w","e","b","m","a","s","t","e","r">>, <<"n","o","r","e","p","l","y">>,
    <<"s","y","s","t","e","m">>, <<"p","o","s","t","m","a","s","t","e","r">> }

is_mailbox_blacklisted(mailbox) ==
  to_ascii_lowercase(trim(mailbox)) \in DEFAULT_MAILBOX_BLACKLIST

\* Config::banned_sender_domains (BANNED_SENDER_DOMAINS), trimmed and
\* lower-cased by parse_list_env.
cfg_banned_sender_domains == { <<"d">> }

\* A deny list that Config::is_sender_domain_blocked never consults.
is_sender_domain_blocked_never(domain) == FALSE

is_sender_domain_blocked(domain) ==
  to_ascii_lowercase(trim(domain)) \in cfg_banned_sender_domains

(***************************************************************************)
(* store.rs: the pure parts                                                *)
(***************************************************************************)
Reverse(s) == [i \in 1..Len(s) |-> s[Len(s) + 1 - i]]

BucketLen(bm, mailbox) == IF mailbox \in DOMAIN bm THEN Len(bm[mailbox]) ELSE 0

\* HashMap::insert / HashMap::remove on the bucket map.
MapInsert(bm, k, v) == [x \in DOMAIN bm \cup {k} |-> IF x = k THEN v ELSE bm[x]]

MapRemove(bm, k) == [x \in DOMAIN bm \ {k} |-> bm[x]]

\* prune_mailbox without its drain of the oldest messages over max_messages.
prune_without_drain(bm, mailbox, t, ttl, max_messages) ==
  IF mailbox \notin DOMAIN bm THEN bm
  ELSE LET retained == SelectSeq(bm[mailbox], LAMBDA item : item.received_at >= t - ttl)
       IN IF retained # <<>>
            THEN MapInsert(MapRemove(bm, mailbox), mailbox, retained)
            ELSE MapRemove(bm, mailbox)

\* prune_mailbox without its retain of the messages at or after the cutoff.
prune_without_retain(bm, mailbox, t, ttl, max_messages) ==
  IF mailbox \notin DOMAIN bm THEN bm
  ELSE LET messages == IF Len(bm[mailbox]) > max_messages
                         THEN SubSeq(bm[mailbox], Len(bm[mailbox]) - max_messages + 1,
                                     Len(bm[mailbox]))
                         ELSE bm[mailbox]
       IN MapInsert(MapRemove(bm, mailbox), mailbox, messages)

\* prune_mailbox draining from the newest end.
prune_draining_newest(bm, mailbox, t, ttl, max_messages) ==
  IF mailbox \notin DOMAIN bm THEN bm
  ELSE LET retained == SelectSeq(bm[mailbox], LAMBDA item : item.received_at >= t - ttl)
           messages == IF Len(retained) > max_messages
                         THEN SubSeq(retained, 1, max_messages)
                         ELSE retained
       IN IF messages # <<>>
            THEN MapInsert(MapRemove(bm, mailbox), mailbox, messages)
            ELSE MapRemove(bm, mailbox)

prune_mailbox(bm, mailbox, t, ttl, max_messages) ==
  IF mailbox \notin DOMAIN bm THEN bm
  ELSE LET cutoff   == t - ttl
           retained == SelectSeq(bm[mailbox], LAMBDA item : item.received_at >= cutoff)
           messages == IF Len(retained) > max_messages
                         THEN SubSeq(retained, Len(retained) - max_messages + 1,
                                     Len(retained))
                         ELSE retained
       IN IF messages # <<>>
            THEN MapInsert(MapRemove(bm, mailbox), mailbox, messages)
            ELSE MapRemove(bm, mailbox)

\* The loop of Store::cleanup_expired over the keys collected at its start.
RECURSIVE cleanup_loop(_, _, _, _)
cleanup_loop(bm, keys, t, removed) ==
  IF keys = {} THEN [map |-> bm, removed |-> removed]
  ELSE LET mailbox == CHOOSE k \in keys : TRUE
           before  == BucketLen(bm, mailbox)
           pruned  == prune_mailbox(bm, mailbox, t, TTL, MaxMessages)
           after   == BucketLen(pruned, mailbox)
       IN cleanup_loop(pruned, keys \ {mailbox}, t,
                       removed + (IF before > after THEN before - after ELSE 0))

\* The body of Store::list after pruning: the bucket, newest first.
list_result(bm, mailbox) ==
  IF mailbox \in DOMAIN bm THEN Reverse(bm[mailbox]) ELSE <<>>

\* The body of Store::get after pruning: the first match searching from the
\* newest message, as a sequence of at most one message (an Option).
get_result(bm, mailbox, id) ==
  LET found == SelectSeq(list_result(bm, mailbox), LAMBDA item : item.id = id)
  IN IF found = <<>> THEN <<>> ELSE <<found[1]>>

(***************************************************************************)
(* State                                                                   *)
(***************************************************************************)
Sessions == {"s1", "s2"}

Clients == {"c1"}

Requests == {"r1", "r2"}

\* Arguments a client gives to RCPT.
RcptInputs ==
  { <<"T","O",":","a">>, <<"t","o",":","<","B","@","x",">">>,
    <<"T","O",":","b","@","y">>, <<"T","O",":","m","a","i","l">> }

\* Arguments a client gives to MAIL: an address, the null path, an address of
\* the denied domain, an address without a domain and a path without FROM:.
MailInputs ==
  { <<"F","R","O","M",":","<","S","@","y",">">>, <<"F","R","O","M",":","<",">">>,
    <<"f","r","o","m",":"," ","u","@","D"," ","x">>, <<"F","R","O","M",":","<","s",">">>,
    <<"<","s","@","y",">">> }

\* A line of n bytes that does not start with a dot, and one that does.
Line(n) == [i \in 1..n |-> IF i = n THEN "\n" ELSE "h"]

DotLine(n) == [i \in 1..n |-> IF i = 1 THEN "." ELSE IF i = n THEN "\n" ELSE "h"]

Terminator == <<".", "\r", "\n">>

\* What follows the lines of a body on the connection: the end of the stream
\* ("eof") or a read error ("error").
GoodBody == [lines |-> <<Line(2), Terminator>>, end |-> "eof"]

\* Bodies a client sends after DATA: a short one, one whose dot-stuffed line
\* fills the limit exactly once unstuffed, one whose first line and one whose
\* second line passes the limit, two that stop before the terminator, and one
\* whose first line passes the limit and whose next lines read as commands.
DataInputs ==
  { GoodBody,
    [lines |-> <<Line(MaxMessageBytes + 1),
                 <<"r","c","p","t"," ","T","O",":","a","\r","\n">>,
                 <<"\n">>, <<"Q","U","I","T","\n">>, Terminator>>, end |-> "eof"],
    [lines |-> << <<".">> \o DotLine(MaxMessageBytes), Terminator>>, end |-> "eof"],
    [lines |-> <<Line(MaxMessageBytes + 1), Terminator>>, end |-> "eof"],
    [lines |-> <<Line(MaxMessageBytes), Line(2), Terminator>>, end |-> "eof"],
    [lines |-> <<Line(2)>>, end |-> "eof"],
    [lines |-> <<Line(2)>>, end |-> "error"] }

\* mail_parser::parse rests on mailparse::parse_mail: its outcome on a body is
\* an error, or a message whose first From header (trimmed) is `from`.
PlainParse == [ok |-> TRUE, from |-> <<>>]

ParseOutcomes ==
  { PlainParse, [ok |-> TRUE, from |-> <<"u","@","d">>], [ok |-> FALSE, from |-> <<>>] }

\* Mailbox names the callers of the HTTP API put in the path.
MailboxInputs == { <<"a">>, <<"<","B",">">>, <<"a","!">> }

\* RCPT paths that all name the mailbox "a", and one that is refused.
SameMailboxInputs ==
  { <<"T","O",":","a">>, <<"T","O",":","<","A","@","x",">">>,
    <<"T","O",":","m","a","i","l">> }

NoLock == "free"

VARIABLES
  now,         \* Utc::now(), the wall clock
  by_mailbox,  \* StoreInner::by_mailbox
  lock,        \* holder of the write lock of Store::inner
  chan,        \* the broadcast ring: tail, the number of events written so far,
               \* and buf, the last Capacity of them, oldest first
  appended,    \* ids pushed by Store::add whose Added event is not sent yet,
               \* in the order of the pushes
  nextId,      \* the next fresh message id
  sess,        \* the SMTP sessions (handle_connection)
  cli,         \* the callers of list, get, delete, clear and cleanup_expired
  rq,          \* the events/next requests (next_mailbox_event)
  call,        \* one call of a function of address.rs or of read_data_block:
               \* its arguments and, once it returned, its result
  main         \* main(): the shutdown flag, the three tasks and the supervisor

vars == <<now, by_mailbox, lock, chan, appended, nextId, sess, cli, rq, call, main>>

\* main() once it waits for the interrupt: the flag of watch::channel(false),
\* the three tasks spawned and running, no connection accepted yet.
\* pc: "ctrl_c" waiting for the interrupt, "shutdown_wait" joining the tasks
\* under the timeout, "returned" once main has returned and the runtime with
\* every task still on it is gone.  A task is "run", "drain" (the HTTP server
\* in graceful shutdown), "done" (it returned) or "dropped" (it went with the
\* runtime).  sessions: handle_connection tasks alive; inflight: HTTP requests
\* being served; at, deadline, end: the clock at the signal, the deadline of
\* the timeout and the clock at the return.
Started ==
  [shutdown |-> FALSE, pc |-> "ctrl_c", smtp_task |-> "run", http_task |-> "run",
   cleanup_task |-> "run", sessions |-> 0, inflight |-> 0, at |-> 0,
   deadline |-> 0, end |-> 0]

\* Transaction::default, which is also what Transaction::reset leaves.
Transaction_default == [from |-> <<>>, recipients |-> <<>>]

\* pc: "cmd" reading commands, "add" inside Store::add waiting for the lock,
\* "locked" inside Store::add holding it, "closed" once the connection ended.
\* "stray" is "cmd" with lines of a message body still unread on the
\* connection (unread), which the command loop reads next.
\* raw and parsed are the DATA buffer and its parse while the recipients are
\* delivered; reply holds the replies written for the command just handled.
\* mailed records that a MAIL command was answered 250 since the connection
\* started, the last RSET and the last DATA that was answered 354.
IdleSession == [pc |-> "cmd", tx |-> Transaction_default, idx |-> 0, stamp |-> 0,
                msg |-> <<>>, mailbox |-> <<>>, anow |-> 0, raw |-> <<>>,
                parsed |-> PlainParse, reply |-> <<>>, unread |-> <<>>,
                mailed |-> FALSE]

\* pc: "idle", a call waiting for the lock ("list", "get", "cleanup"), or
\* "done" with what the last call returned (msgs, n).
IdleClient == [pc |-> "idle", op |-> "none", mailbox |-> <<>>, id |-> 0, now |-> 0,
               msgs |-> <<>>, n |-> 0]

\* pc: "idle", "wait" inside the loop over recv, "done" with the response
\* (status, event) and "closed" once it has left.  next is the position of the
\* last event the receiver has passed, subPos the tail of the feed when it
\* subscribed, subAt and endAt the times of subscribing and of responding.
IdleRequest == [pc |-> "idle", mailbox |-> <<>>, next |-> 0, deadline |-> 0,
                subAt |-> 0, subPos |-> 0, status |-> 0, event |-> <<>>,
                endAt |-> 0]

\* No function is called on its own.
NoCall == [fn |-> "none", pc |-> "none"]

\* The store, the feed and the tasks after main has built and spawned them.
Constructed ==
  /\ now = 1
  /\ by_mailbox = <<>>
  /\ lock = NoLock
  /\ chan = [tail |-> 0, buf |-> <<>>]
  /\ appended = <<>>
  /\ nextId = 1
  /\ sess = [s \in Sessions |-> IdleSession]
  /\ cli = [c \in Clients |-> IdleClient]
  /\ rq = [r \in Requests |-> IdleRequest]
  /\ main = Started

Init == Constructed /\ call = NoCall

(***************************************************************************)
(* The broadcast channel (tokio::sync::broadcast) as the store uses it     *)
(***************************************************************************)
\* Live receivers: Store::new drops the receiver it creates, so the only
\* receivers are those of the waiting events/next requests.
rx_cnt == Cardinality({r \in Requests : rq[r].pc = "wait"})

\* A write at the tail of the ring overwrites its oldest slot once it is full.
ring_write(ch, ev) ==
  [tail |-> ch.tail + 1,
   buf  |-> IF Len(ch.buf) < Capacity THEN Append(ch.buf, ev)
            ELSE Append(Tail(ch.buf), ev)]

\* The event at position pos, one of the last Len(buf) positions.
ring_at(ch, pos) == ch.buf[pos - (ch.tail - Len(ch.buf))]

\* A send on a bounded queue: it waits while a receiver has Capacity unread
\* events.
send_with_backpressure(ev) ==
  /\ \A r \in Requests : rq[r].pc = "wait" => chan.tail - rq[r].next < Capacity
  /\ chan' = IF rx_cnt > 0 THEN ring_write(chan, ev) ELSE chan

\* A send that reaches no receiver.
send_to_nobody(ev) == chan' = chan

\* events_tx.send(ev) with its result discarded (let _ =): with no receiver
\* the event is dropped, otherwise it is written at the tail of the ring.
send(ev) == chan' = IF rx_cnt > 0 THEN ring_write(chan, ev) ELSE chan

\* Option<String>: a sequence of at most one element.
None == <<>>

Some(x) == <<x>>

\* A StoreEvent without its `at` (Utc::now() at the send), which no handler
\* reads.
StoreEvent(type, mailbox, message_id) ==
  [event |-> type, mailbox |-> mailbox, message_id |-> message_id]

\* A receiver that starts at the oldest event the ring holds.
subscribe_at_oldest == IF chan.tail > Capacity THEN chan.tail - Capacity ELSE 0

\* Sender::subscribe: the new receiver starts at the tail.
subscribe == chan.tail

(***************************************************************************)
(* smtp_server.rs: RCPT and the delivery path of DATA                      *)
(***************************************************************************)
\* Transaction::reset leaving the sender in place.
reset_keeping_sender(tx) == [tx EXCEPT !.recipients = <<>>]

\* Transaction::reset.
reset(tx) == [from |-> <<>>, recipients |-> <<>>]

Reply(code, text) == [code |-> code, text |-> text]

OK == Reply(250, "OK")

extract_smtp_address(arg, prefix) ==
  IF ~starts_with(to_ascii_uppercase(arg), prefix) THEN Err("invalid smtp path")
  ELSE LET raw == trim(SubSeq(arg, Len(prefix) + 1, Len(arg)))
       IN IF raw = <<>> THEN Err("invalid smtp path")
          ELSE IF Head(raw) = "<"
            THEN LET rest      == Tail(raw)
                     close_idx == find(rest, ">")
                 IN IF close_idx = 0 THEN Err("invalid smtp path")
                    ELSE [ok |-> TRUE, value |-> trim(SubSeq(rest, 1, close_idx - 1))]
          ELSE [ok |-> TRUE, value |-> trim(first_token(raw))]

\* handle_mail_from: the reply the caller writes and the transaction it leaves.
handle_mail_from(tx, arg) ==
  LET e == extract_smtp_address(arg, <<"F","R","O","M",":">>)
  IN IF ~e.ok THEN [reply |-> Reply(550, e.err), tx |-> tx]
     ELSE LET cleared == [tx EXCEPT !.recipients = <<>>]
              from    == e.value
              p       == parse_email(from)
          IN IF from = <<>> THEN [reply |-> OK, tx |-> [cleared EXCEPT !.from = <<>>]]
             ELSE IF ~p.ok
               THEN [reply |-> Reply(550, "invalid sender address"), tx |-> cleared]
             ELSE IF is_sender_domain_blocked(p.domain)
               THEN [reply |-> Reply(530, "sender domain is blocked"), tx |-> cleared]
             ELSE [reply |-> OK,
                   tx |-> [cleared EXCEPT !.from = to_ascii_lowercase(from)]]

\* handle_rcpt_to pushing the recipient without asking the blacklist.
handle_rcpt_to_unchecked(recipients, arg) ==
  LET e == extract_smtp_address(arg, <<"T","O",":">>)
  IN IF ~e.ok THEN [reply |-> Reply(550, e.err), recipients |-> recipients]
     ELSE LET n == normalize_mailbox(e.value, cfg_domain)
          IN IF ~n.ok THEN [reply |-> Reply(550, n.err), recipients |-> recipients]
             ELSE [reply |-> OK,
                   recipients |-> Append(recipients,
                                         [mailbox |-> n.mailbox, address |-> n.address])]

\* handle_rcpt_to: the reply the caller writes and the recipient list it leaves.
handle_rcpt_to(recipients, arg) ==
  LET e == extract_smtp_address(arg, <<"T","O",":">>)
  IN IF ~e.ok THEN [reply |-> Reply(550, e.err), recipients |-> recipients]
     ELSE LET n == normalize_mailbox(e.value, cfg_domain)
          IN IF ~n.ok THEN [reply |-> Reply(550, n.err), recipients |-> recipients]
             ELSE IF is_mailbox_blacklisted(n.mailbox)
               THEN [reply |-> Reply(550, "mailbox is blocked"),
                     recipients |-> recipients]
             ELSE [reply |-> OK,
                   recipients |-> Append(recipients,
                                         [mailbox |-> n.mailbox, address |-> n.address])]

\* The loop of read_data_block appending every line as it came.
RECURSIVE read_data_keeping_dots(_, _, _, _)
read_data_keeping_dots(raw, lines, end, max_message_bytes) ==
  IF lines = <<>>
    THEN IF end = "error"
           THEN [ok |-> FALSE, reply |-> Reply(451, "failed to read message"), eof |-> FALSE]
           ELSE [ok |-> FALSE, reply |-> Reply(451, "message terminated unexpectedly"),
                 eof |-> TRUE]
  ELSE IF Head(lines) \in {<<".", "\r", "\n">>, <<".", "\n">>, <<".">>}
    THEN [ok |-> TRUE, raw |-> raw]
  ELSE IF Len(raw \o Head(lines)) > max_message_bytes
    THEN [ok |-> FALSE, reply |-> Reply(552, "message too large"), eof |-> FALSE]
  ELSE read_data_keeping_dots(raw \o Head(lines), Tail(lines), end, max_message_bytes)

\* The loop of read_data_block with its size check left out.
RECURSIVE read_data_unchecked(_, _, _, _)
read_data_unchecked(raw, lines, end, max_message_bytes) ==
  IF lines = <<>>
    THEN IF end = "error"
           THEN [ok |-> FALSE, reply |-> Reply(451, "failed to read message"), eof |-> FALSE]
           ELSE [ok |-> FALSE, reply |-> Reply(451, "message terminated unexpectedly"),
                 eof |-> TRUE]
  ELSE IF Head(lines) \in {<<".", "\r", "\n">>, <<".", "\n">>, <<".">>}
    THEN [ok |-> TRUE, raw |-> raw]
  ELSE LET line  == Head(lines)
           bytes == IF starts_with(line, <<".", ".">>) THEN Tail(line) ELSE line
       IN read_data_unchecked(raw \o bytes, Tail(lines), end, max_message_bytes)

\* The loop of read_data_block over the lines the client sends: the buffer,
\* or the reply of the failure (eof: the stream has ended).
RECURSIVE read_data_loop(_, _, _, _)
read_data_loop(raw, lines, end, max_message_bytes) ==
  IF lines = <<>>
    THEN IF end = "error"
           THEN [ok |-> FALSE, reply |-> Reply(451, "failed to read message"), eof |-> FALSE]
           ELSE [ok |-> FALSE, reply |-> Reply(451, "message terminated unexpectedly"),
                 eof |-> TRUE]
  ELSE IF Head(lines) \in {<<".", "\r", "\n">>, <<".", "\n">>, <<".">>}
    THEN [ok |-> TRUE, raw |-> raw]
  ELSE LET line  == Head(lines)
           bytes == IF starts_with(line, <<".", ".">>) THEN Tail(line) ELSE line
       IN IF Len(raw \o bytes) > max_message_bytes
            THEN [ok |-> FALSE, reply |-> Reply(552, "message too large"), eof |-> FALSE]
            ELSE read_data_loop(raw \o bytes, Tail(lines), end, max_message_bytes)

read_data_block(body, max_message_bytes) ==
  read_data_loop(<<>>, body.lines, body.end, max_message_bytes)

\* The lines read_data_block leaves on the connection when it returns: those
\* after the terminator, or after the line that passed the limit.
RECURSIVE unread(_, _, _)
unread(raw, lines, max_message_bytes) ==
  IF lines = <<>> THEN <<>>
  ELSE IF Head(lines) \in {<<".", "\r", "\n">>, <<".", "\n">>, <<".">>} THEN Tail(lines)
  ELSE LET line  == Head(lines)
           bytes == IF starts_with(line, <<".", ".">>) THEN Tail(line) ELSE line
       IN IF Len(raw \o bytes) > max_message_bytes THEN Tail(lines)
          ELSE unread(raw \o bytes, Tail(lines), max_message_bytes)

\* line.trim_end_matches(['\r', '\n'])
RECURSIVE trim_line_end(_)
trim_line_end(line) ==
  IF line # <<>> /\ line[Len(line)] \in {"\r", "\n"}
    THEN trim_line_end(SubSeq(line, 1, Len(line) - 1))
    ELSE line

\* splitn(2, ' '): the verb, trimmed and upper-cased, and the trimmed rest.
split_command(input) ==
  LET sp == find(input, " ")
  IN IF sp = 0 THEN [verb |-> to_ascii_uppercase(trim(input)), arg |-> <<>>]
     ELSE [verb |-> to_ascii_uppercase(trim(SubSeq(input, 1, sp - 1))),
           arg  |-> trim(SubSeq(input, sp + 1, Len(input)))]

(***************************************************************************)
(* read_data_block called on what a client sends after 354                 *)
(***************************************************************************)
\* Lines of a message: empty, text, a lone dot (LF and CRLF), and lines that
\* start with one and with two dots.
BodyLines ==
  { <<"\n">>, <<"h", "\n">>, <<".", "\n">>, <<".", "\r", "\n">>,
    <<".", "h", "\n">>, <<".", ".", "\n">> }

\* The forms of the line that ends a body.
Terminators == { <<".", "\r", "\n">>, <<".", "\n">>, <<".">> }

RECURSIVE SeqsUpTo(_, _)
SeqsUpTo(S, n) ==
  IF n = 0 THEN {<<>>}
  ELSE LET shorter == SeqsUpTo(S, n - 1)
       IN shorter \cup {Append(q, x) : q \in shorter, x \in S}

\* The client's transparency procedure (RFC 5321, 4.5.2): a line that starts
\* with a dot gets one more.
dot_stuff(lines) ==
  [i \in 1..Len(lines) |-> IF lines[i][1] = "." THEN <<".">> \o lines[i] ELSE lines[i]]

\* A client about to send `lines`, stuffed or as they are, ended by `term`,
\* to a server whose max_message_bytes is `max`.
DataCalls ==
  { [fn |-> "read_data_block", pc |-> "ready", lines |-> lines, stuffed |-> stuffed,
     term |-> term, max |-> max, wire |-> <<>>, result |-> <<>>] :
      lines \in SeqsUpTo(BodyLines, MaxLines), stuffed \in BOOLEAN,
      term \in Terminators, max \in {MaxMessageBytes, MaxMessageBytes * MaxLines} }

\* The client writes the body and its terminator to the connection.
DataSend ==
  /\ call.fn = "read_data_block" /\ call.pc = "ready"
  /\ call' = [call EXCEPT
               !.pc = "sent",
               !.wire = (IF call.stuffed THEN dot_stuff(call.lines) ELSE call.lines)
                          \o <<call.term>>]
  /\ UNCHANGED <<now, by_mailbox, lock, chan, appended, nextId, sess, cli, rq, main>>

\* read_data_block reads it.
DataRead ==
  /\ call.fn = "read_data_block" /\ call.pc = "sent"
  /\ call' = [call EXCEPT
               !.pc = "returned",
               !.result = read_data_block([lines |-> call.wire, end |-> "eof"], call.max)]
  /\ UNCHANGED <<now, by_mailbox, lock, chan, appended, nextId, sess, cli, rq, main>>

\* The DATA branch without its guard on the recipient list: with no
\* recipient the loop over them adds nothing and 250 is replied.
handle_data_unguarded(tx, body, parse) ==
  LET go == Reply(354, "End data with <CR><LF>.<CR><LF>")
      r  == read_data_block(body, MaxMessageBytes)
  IN IF ~r.ok
       THEN [reply |-> <<go, r.reply>>, tx |-> reset(tx), add |-> FALSE,
             closed |-> r.eof, raw |-> <<>>]
     ELSE IF ~parse.ok
       THEN [reply |-> <<go, Reply(550, "invalid message content")>>, tx |-> reset(tx),
             add |-> FALSE, closed |-> FALSE, raw |-> <<>>]
     ELSE IF tx.recipients = <<>>
       THEN [reply |-> <<go, Reply(250, "message accepted")>>, tx |-> reset(tx),
             add |-> FALSE, closed |-> FALSE, raw |-> <<>>]
     ELSE [reply |-> <<go>>, tx |-> tx, add |-> TRUE, closed |-> FALSE, raw |-> r.raw]

\* The DATA branch of handle_connection up to the loop over the recipients,
\* when the client then sends `body` and mail_parser::parse returns `parse`:
\* the replies written, the transaction left, whether the loop is entered
\* (add) with which buffer (raw), and whether the stream has ended (closed).
handle_data(tx, body, parse) ==
  LET go == Reply(354, "End data with <CR><LF>.<CR><LF>")
      r  == read_data_block(body, MaxMessageBytes)
  IN IF tx.recipients = <<>>
       THEN [reply |-> <<Reply(554, "no recipients")>>, tx |-> tx, add |-> FALSE,
             closed |-> FALSE, raw |-> <<>>]
     ELSE IF ~r.ok
       THEN [reply |-> <<go, r.reply>>, tx |-> reset(tx), add |-> FALSE,
             closed |-> r.eof, raw |-> <<>>]
     ELSE IF ~parse.ok
       THEN [reply |-> <<go, Reply(550, "invalid message content")>>, tx |-> reset(tx),
             add |-> FALSE, closed |-> FALSE, raw |-> <<>>]
     ELSE [reply |-> <<go>>, tx |-> tx, add |-> TRUE, closed |-> FALSE, raw |-> r.raw]

\* Ids the recipients already accepted will draw when they are delivered.
IdsOwed(s) ==
  IF sess[s].pc = "cmd" THEN Len(sess[s].tx.recipients)
  ELSE Len(sess[s].tx.recipients) - sess[s].idx

RECURSIVE SumOver(_, _)
SumOver(S, f) ==
  IF S = {} THEN 0
  ELSE LET x == CHOOSE y \in S : TRUE IN f[x] + SumOver(S \ {x}, f)

\* "RCPT": the recipient list grows only when handle_rcpt_to accepts.  The
\* run takes a recipient only while a message id is left for it.
SmtpRcpt(s, to) ==
  /\ sess[s].pc = "cmd"
  /\ (nextId - 1) + SumOver(Sessions, [x \in Sessions |-> IdsOwed(x)]) < MaxIds
  /\ LET r == handle_rcpt_to(sess[s].tx.recipients, to)
     IN sess' = [sess EXCEPT ![s].tx.recipients = r.recipients,
                             ![s].reply = <<r.reply>>]
  /\ UNCHANGED <<now, by_mailbox, lock, chan, appended, nextId, cli, rq, call, main>>

\* Store::add up to the lock (lines 80-93): the key is normalised and the
\* unset fields of the message are filled in.
add_enter(mailbox_in, message, t) ==
  LET mailbox == to_ascii_lowercase(trim(mailbox_in))
  IN [mailbox |-> mailbox,
      message |-> [message EXCEPT
                     !.received_at = IF @ = 0 THEN t ELSE @,
                     !.mailbox = IF @ = <<>> THEN mailbox ELSE @]]

\* One turn of the loop over tx.recipients that takes the first recipient
\* every time.
deliver_to_first(session, idx, id, t) ==
  LET rcpt  == session.tx.recipients[1]
      built == [id |-> id, mailbox |-> rcpt.mailbox, to |-> rcpt.address,
                from |-> IF trim(session.parsed.from) = <<>>
                           THEN session.tx.from ELSE session.parsed.from,
                received_at |-> session.stamp]
      e     == add_enter(rcpt.mailbox, built, t)
  IN [session EXCEPT !.pc = "add", !.idx = idx, !.msg = e.message,
                     !.mailbox = e.mailbox, !.anow = t]

\* One turn of the loop over tx.recipients (lines 147-168) up to the await of
\* the write lock in Store::add: the message is built with a fresh id and
\* received_at = the session's stamp, and add samples its own now.
deliver(session, idx, id, t) ==
  LET rcpt  == session.tx.recipients[idx]
      built == [id |-> id, mailbox |-> rcpt.mailbox, to |-> rcpt.address,
                from |-> IF trim(session.parsed.from) = <<>>
                           THEN session.tx.from ELSE session.parsed.from,
                received_at |-> session.stamp]
      e     == add_enter(rcpt.mailbox, built, t)
  IN [session EXCEPT !.pc = "add", !.idx = idx, !.msg = e.message,
                     !.mailbox = e.mailbox, !.anow = t]

\* "MAIL".
SmtpMail(s, arg) ==
  /\ sess[s].pc = "cmd"
  /\ LET r == handle_mail_from(sess[s].tx, arg)
     IN sess' = [sess EXCEPT ![s].tx = r.tx, ![s].reply = <<r.reply>>,
                             ![s].mailed = @ \/ r.reply = OK]
  /\ UNCHANGED <<now, by_mailbox, lock, chan, appended, nextId, cli, rq, call, main>>

\* "RSET".
SmtpRset(s) ==
  /\ sess[s].pc = "cmd"
  /\ sess' = [sess EXCEPT ![s].tx = reset(@), ![s].reply = <<OK>>,
                           ![s].mailed = FALSE]
  /\ UNCHANGED <<now, by_mailbox, lock, chan, appended, nextId, cli, rq, call, main>>

\* "EHLO", "HELO", "NOOP" and every verb that is not recognised: a reply (the
\* last line of it) and nothing else.
SmtpVerbs == {"EHLO", "HELO", "NOOP", "VRFY"}

SmtpReply(s, verb) ==
  /\ sess[s].pc = "cmd"
  /\ sess' = [sess EXCEPT ![s].reply =
               << CASE verb = "EHLO" -> Reply(250, "8BITMIME")
                    [] verb = "HELO" -> Reply(250, cfg_domain)
                    [] verb = "NOOP" -> OK
                    [] OTHER -> Reply(500, "command not recognized") >>]
  /\ UNCHANGED <<now, by_mailbox, lock, chan, appended, nextId, cli, rq, call, main>>

\* "QUIT" (221 and break) or the end of the stream where a command is read
\* (break): handle_connection returns and its transaction is dropped.
SmtpClose(s, quit) ==
  /\ sess[s].pc = "cmd"
  /\ sess' = [sess EXCEPT ![s] =
               [IdleSession EXCEPT !.pc = "closed",
                                   !.reply = IF quit THEN <<Reply(221, "Bye")>> ELSE <<>>]]
  /\ UNCHANGED <<now, by_mailbox, lock, chan, appended, nextId, cli, rq, call, main>>

\* The listener accepts a connection: a new handle_connection with
\* Transaction::default() and the greeting.
SmtpConnect(s) ==
  /\ sess[s].pc = "closed"
  /\ sess' = [sess EXCEPT ![s] =
               [IdleSession EXCEPT !.reply = <<Reply(220, "ESMTP ready")>>]]
  /\ UNCHANGED <<now, by_mailbox, lock, chan, appended, nextId, cli, rq, call, main>>

\* "DATA": handle_data, and on success the session stamps now (line 146) and
\* enters the loop over the recipients.  After the end of the stream the next
\* read of a command ends the connection; after any other failure of
\* read_data_block the command loop goes on with what the block left unread.
SmtpData(s, body, parse) ==
  /\ sess[s].pc = "cmd"
  /\ LET d    == handle_data(sess[s].tx, body, parse)
         go   == d.reply[1].code = 354
         rest == IF go THEN unread(<<>>, body.lines, MaxMessageBytes) ELSE <<>>
     IN IF d.add
          THEN /\ sess' = [sess EXCEPT ![s] =
                            deliver([@ EXCEPT !.stamp = now, !.raw = d.raw,
                                              !.parsed = parse, !.reply = d.reply,
                                              !.mailed = FALSE],
                                    1, nextId, now)]
               /\ nextId' = nextId + 1
          ELSE /\ sess' = [sess EXCEPT ![s] =
                            [IdleSession EXCEPT
                               !.pc = IF d.closed THEN "closed"
                                      ELSE IF rest # <<>> THEN "stray" ELSE "cmd",
                               !.tx = d.tx, !.reply = d.reply, !.unread = rest,
                               !.mailed = IF go THEN FALSE ELSE sess[s].mailed]]
               /\ UNCHANGED nextId
  /\ UNCHANGED <<now, by_mailbox, lock, chan, appended, cli, rq, call, main>>

\* One turn of the command loop (lines 88-208) on a line that is already on
\* the connection, given the line without its ending and its verb and
\* argument: the replies written, the transaction left and whether the loop
\* breaks.
command(tx, input, verb, arg) ==
  IF input = <<>> THEN [verb |-> <<>>, reply |-> <<>>, tx |-> tx, closed |-> FALSE]
  ELSE IF verb = <<"M","A","I","L">>
    THEN [verb |-> verb, reply |-> <<handle_mail_from(tx, arg).reply>>,
          tx |-> handle_mail_from(tx, arg).tx, closed |-> FALSE]
  ELSE IF verb = <<"R","C","P","T">>
    THEN [verb |-> verb, reply |-> <<handle_rcpt_to(tx.recipients, arg).reply>>,
          tx |-> [tx EXCEPT !.recipients = handle_rcpt_to(tx.recipients, arg).recipients],
          closed |-> FALSE]
  ELSE IF verb = <<"D","A","T","A">>
    THEN [verb |-> verb, reply |-> <<Reply(554, "no recipients")>>, tx |-> tx,
          closed |-> FALSE]
  ELSE IF verb = <<"R","S","E","T">>
    THEN [verb |-> verb, reply |-> <<OK>>, tx |-> reset(tx), closed |-> FALSE]
  ELSE IF verb = <<"N","O","O","P">>
    THEN [verb |-> verb, reply |-> <<OK>>, tx |-> tx, closed |-> FALSE]
  ELSE IF verb = <<"Q","U","I","T">>
    THEN [verb |-> verb, reply |-> <<Reply(221, "Bye")>>, tx |-> tx, closed |-> TRUE]
  ELSE IF verb = <<"E","H","L","O">>
    THEN [verb |-> verb, reply |-> <<Reply(250, "8BITMIME")>>, tx |-> tx,
          closed |-> FALSE]
  ELSE IF verb = <<"H","E","L","O">>
    THEN [verb |-> verb, reply |-> <<Reply(250, cfg_domain)>>, tx |-> tx,
          closed |-> FALSE]
  ELSE [verb |-> verb, reply |-> <<Reply(500, "command not recognized")>>,
        tx |-> tx, closed |-> FALSE]

\* The command loop reads the next line a failed read_data_block left on the
\* connection.  (A DATA line there is answered 554: no body of DataInputs
\* has a DATA line after an accepted RCPT line.)
SmtpStray(s) ==
  /\ sess[s].pc = "stray"
  /\ LET input == trim_line_end(Head(sess[s].unread))
         sc    == split_command(input)
         c     == command(sess[s].tx, input, sc.verb, sc.arg)
         rest  == Tail(sess[s].unread)
     IN /\ c.verb = <<"D","A","T","A">> => sess[s].tx.recipients = <<>>
        /\ sess' = [sess EXCEPT ![s] =
                     IF c.closed
                       THEN [IdleSession EXCEPT !.pc = "closed", !.reply = c.reply]
                       ELSE [@ EXCEPT
                               !.pc = IF rest = <<>> THEN "cmd" ELSE "stray",
                               !.tx = c.tx, !.reply = c.reply, !.unread = rest,
                               !.mailed =
                                 IF c.verb = <<"M","A","I","L">> /\ c.reply = <<OK>>
                                   THEN TRUE
                                 ELSE IF c.verb = <<"R","S","E","T">> THEN FALSE
                                 ELSE @]]
  /\ UNCHANGED <<now, by_mailbox, lock, chan, appended, nextId, cli, rq, call, main>>

\* Store::add under the lock, lines 94-106: push, then prune with add's now.
add_push(bm, mailbox, message, t) ==
  prune_mailbox(
    MapInsert(bm, mailbox,
              (IF mailbox \in DOMAIN bm THEN bm[mailbox] ELSE <<>>) \o <<message>>),
    mailbox, t, TTL, MaxMessages)

\* The guard dropped after the push and prune, before the event is sent.
add_guard_dropped(s) == NoLock

\* The lock that Store::add holds after its push and prune (the guard `inner`
\* lives until the function returns).
add_guard(s) == s

AddLock(s) ==
  /\ sess[s].pc = "add"
  /\ lock = NoLock
  /\ lock' = add_guard(s)
  /\ by_mailbox' = add_push(by_mailbox, sess[s].mailbox, sess[s].msg, sess[s].anow)
  /\ appended' = Append(appended, sess[s].msg.id)
  /\ sess' = [sess EXCEPT ![s].pc = "locked"]
  /\ UNCHANGED <<now, chan, nextId, cli, rq, call, main>>

\* Store::add, lines 108-114: the Added event is sent and the guard dropped.
\* The session then either enters add for its next recipient or, after the
\* last one, resets the transaction and replies 250 message accepted.
AddPublish(s) ==
  /\ sess[s].pc = "locked"
  /\ send(StoreEvent("added", sess[s].mailbox, Some(sess[s].msg.id)))
  /\ appended' = SelectSeq(appended, LAMBDA id : id # sess[s].msg.id)
  /\ lock' = IF lock = s THEN NoLock ELSE lock
  /\ IF sess[s].idx < Len(sess[s].tx.recipients)
       THEN /\ sess' = [sess EXCEPT ![s] = deliver(@, sess[s].idx + 1, nextId, now)]
            /\ nextId' = nextId + 1
       ELSE /\ sess' = [sess EXCEPT ![s] =
                         [IdleSession EXCEPT
                            !.tx = reset(sess[s].tx),
                            !.reply = Append(sess[s].reply,
                                             Reply(250, "message accepted"))]]
            /\ UNCHANGED nextId
  /\ UNCHANGED <<now, by_mailbox, cli, rq, call, main>>

(***************************************************************************)
(* store.rs: list, get, cleanup_expired, delete, clear                     *)
(***************************************************************************)
Callable(c) == cli[c].pc = "idle"

Returned(op, mailbox, id, t, msgs, n) ==
  [pc |-> "done", op |-> op, mailbox |-> mailbox, id |-> id, now |-> t,
   msgs |-> msgs, n |-> n]

\* The mailbox an HTTP handler passes to the store, as the store keys it.
ApiKey(raw) == to_ascii_lowercase(trim(normalize_mailbox(raw, cfg_domain).mailbox))

\* The HTTP handlers normalise the mailbox of the path before they call the
\* store, and answer 400 without calling it when that fails.
BadRequest(c, raw) ==
  /\ Callable(c)
  /\ ~normalize_mailbox(raw, cfg_domain).ok
  /\ cli' = [cli EXCEPT ![c] = Returned("400", <<>>, 0, 0, <<>>, 0)]
  /\ UNCHANGED <<now, by_mailbox, lock, chan, appended, nextId, sess, rq, call, main>>

\* write_message_list / write_message_detail calling Store::list / Store::get,
\* which normalise the key, sample now and then wait for the lock.
CallStart(c, op, raw, id) ==
  /\ Callable(c)
  /\ op \in {"list", "get"}
  /\ normalize_mailbox(raw, cfg_domain).ok
  /\ cli' = [cli EXCEPT ![c] =
               [IdleClient EXCEPT !.pc = op, !.op = op, !.mailbox = ApiKey(raw),
                                  !.id = IF op = "get" THEN id ELSE 0, !.now = now]]
  /\ UNCHANGED <<now, by_mailbox, lock, chan, appended, nextId, sess, rq, call, main>>

\* The periodic pruner calling Store::cleanup_expired, which samples now and
\* then waits for the lock.
CleanupStart(c) ==
  /\ Callable(c)
  /\ cli' = [cli EXCEPT ![c] = [IdleClient EXCEPT !.pc = "cleanup", !.op = "cleanup",
                                                  !.now = now]]
  /\ UNCHANGED <<now, by_mailbox, lock, chan, appended, nextId, sess, rq, call, main>>

ListLocked(c) ==
  /\ cli[c].pc = "list"
  /\ lock = NoLock
  /\ LET pruned == prune_mailbox(by_mailbox, cli[c].mailbox, cli[c].now, TTL, MaxMessages)
     IN /\ by_mailbox' = pruned
        /\ cli' = [cli EXCEPT ![c] = Returned("list", cli[c].mailbox, 0, cli[c].now,
                                              list_result(pruned, cli[c].mailbox), 0)]
  /\ UNCHANGED <<now, lock, chan, appended, nextId, sess, rq, call, main>>

GetLocked(c) ==
  /\ cli[c].pc = "get"
  /\ lock = NoLock
  /\ LET pruned == prune_mailbox(by_mailbox, cli[c].mailbox, cli[c].now, TTL, MaxMessages)
     IN /\ by_mailbox' = pruned
        /\ cli' = [cli EXCEPT ![c] =
                     Returned("get", cli[c].mailbox, cli[c].id, cli[c].now,
                              get_result(pruned, cli[c].mailbox, cli[c].id), 0)]
  /\ UNCHANGED <<now, lock, chan, appended, nextId, sess, rq, call, main>>

\* cleanup_expired returning the number of buckets it removed.
cleanup_counting_buckets(bm, t) ==
  LET r == cleanup_loop(bm, DOMAIN bm, t, 0)
  IN [map |-> r.map, removed |-> Cardinality(DOMAIN bm \ DOMAIN r.map)]

cleanup_expired(bm, t) == cleanup_loop(bm, DOMAIN bm, t, 0)

\* cleanup_expired announcing each bucket it pruned with a Cleared event.
cleanup_announcing_pruned(c) ==
  /\ cli[c].pc = "cleanup"
  /\ lock = NoLock
  /\ LET r == cleanup_expired(by_mailbox, cli[c].now)
         touched == {m \in DOMAIN by_mailbox :
                       BucketLen(r.map, m) < BucketLen(by_mailbox, m)}
     IN /\ by_mailbox' = r.map
        /\ IF touched # {}
             THEN send(StoreEvent("cleared", CHOOSE m \in touched : TRUE, None))
             ELSE UNCHANGED chan
        /\ cli' = [cli EXCEPT ![c] = Returned("cleanup", <<>>, 0, cli[c].now, <<>>,
                                              r.removed)]
  /\ UNCHANGED <<now, lock, appended, nextId, sess, rq, call, main>>

CleanupLocked(c) ==
  /\ cli[c].pc = "cleanup"
  /\ lock = NoLock
  /\ LET r == cleanup_expired(by_mailbox, cli[c].now)
     IN /\ by_mailbox' = r.map
        /\ cli' = [cli EXCEPT ![c] = Returned("cleanup", <<>>, 0, cli[c].now, <<>>,
                                              r.removed)]
  /\ UNCHANGED <<now, lock, chan, appended, nextId, sess, rq, call, main>>

\* The id that is empty after trim (ids of messages are 1, 2, ...).
EmptyId == 0

\* Store::delete leaving the bucket it emptied in the map.
delete_keeping_bucket(bm, mailbox, id) ==
  IF mailbox \notin DOMAIN bm THEN [map |-> bm, deleted |-> FALSE]
  ELSE LET messages == SelectSeq(bm[mailbox], LAMBDA item : item.id # id)
       IN IF Len(messages) = Len(bm[mailbox]) THEN [map |-> bm, deleted |-> FALSE]
          ELSE [map |-> MapInsert(bm, mailbox, messages), deleted |-> TRUE]

\* Store::delete reporting a removal whenever the mailbox has a bucket.
delete_reporting_bucket(bm, mailbox, id) ==
  IF id = EmptyId THEN [map |-> bm, deleted |-> FALSE]
  ELSE IF mailbox \notin DOMAIN bm THEN [map |-> bm, deleted |-> FALSE]
  ELSE LET kept == SelectSeq(bm[mailbox], LAMBDA item : item.id # id)
       IN [map |-> IF kept = <<>> THEN MapRemove(bm, mailbox)
                   ELSE MapInsert(MapRemove(bm, mailbox), mailbox, kept),
           deleted |-> TRUE]

\* Store::delete: [map, deleted].  An empty id returns before the lock.
delete(bm, mailbox, id) ==
  IF id = EmptyId THEN [map |-> bm, deleted |-> FALSE]
  ELSE IF mailbox \notin DOMAIN bm THEN [map |-> bm, deleted |-> FALSE]
  ELSE LET messages == SelectSeq(bm[mailbox], LAMBDA item : item.id # id)
       IN IF Len(messages) = Len(bm[mailbox]) THEN [map |-> bm, deleted |-> FALSE]
          ELSE [map |-> IF messages = <<>> THEN MapRemove(bm, mailbox)
                        ELSE MapInsert(bm, mailbox, messages),
                deleted |-> TRUE]

\* delete_by_mailbox: 400 for an empty id (lines 199-202), else Store::delete.
Delete(c, raw, id) ==
  /\ Callable(c)
  /\ normalize_mailbox(raw, cfg_domain).ok
  /\ IF id = EmptyId
       THEN /\ cli' = [cli EXCEPT ![c] = Returned("400", <<>>, 0, 0, <<>>, 0)]
            /\ UNCHANGED <<by_mailbox, chan>>
       ELSE /\ lock = NoLock
            /\ LET mailbox == ApiKey(raw)
                   r == delete(by_mailbox, mailbox, id)
               IN /\ by_mailbox' = r.map
                  /\ IF r.deleted THEN send(StoreEvent("deleted", mailbox, Some(id)))
                                  ELSE UNCHANGED chan
                  /\ cli' = [cli EXCEPT ![c] = Returned("delete", mailbox, id, 0, <<>>,
                                                        IF r.deleted THEN 1 ELSE 0)]
  /\ UNCHANGED <<now, lock, appended, nextId, sess, rq, call, main>>

\* Store::clear under the lock: [map, removed].
\* Store::clear removing only the oldest message of the bucket.
clear_oldest_only(bm, mailbox) ==
  IF mailbox \notin DOMAIN bm THEN [map |-> bm, removed |-> 0]
  ELSE [map |-> IF Len(bm[mailbox]) = 1 THEN MapRemove(bm, mailbox)
                ELSE MapInsert(MapRemove(bm, mailbox), mailbox, Tail(bm[mailbox])),
        removed |-> 1]

clear(bm, mailbox) ==
  [map |-> MapRemove(bm, mailbox), removed |-> BucketLen(bm, mailbox)]

\* clear_mailbox calling Store::clear.
Clear(c, raw) ==
  /\ Callable(c)
  /\ lock = NoLock
  /\ normalize_mailbox(raw, cfg_domain).ok
  /\ LET mailbox == ApiKey(raw)
         r == clear(by_mailbox, mailbox)
     IN /\ by_mailbox' = r.map
        /\ IF r.removed > 0 THEN send(StoreEvent("cleared", mailbox, None))
                            ELSE UNCHANGED chan
        /\ cli' = [cli EXCEPT ![c] = Returned("clear", mailbox, 0, 0, <<>>, r.removed)]
  /\ UNCHANGED <<now, lock, appended, nextId, sess, rq, call, main>>

(***************************************************************************)
(* http_api.rs: next_mailbox_event                                         *)
(***************************************************************************)
\* The deadline of a timeout(Duration::from_secs(25), ..) created at t.
timeout(t) == t + PollTimeout

\* Lines 231-236: the mailbox is normalised (400 on failure), the request
\* subscribes and arms the timeout of its first recv.
NextSubscribe(r, raw) ==
  /\ rq[r].pc = "idle"
  /\ LET n == normalize_mailbox(raw, cfg_domain)
     IN rq' = [rq EXCEPT ![r] =
                 IF ~n.ok
                   THEN [IdleRequest EXCEPT !.pc = "done", !.status = 400,
                                            !.subAt = now, !.endAt = now]
                   ELSE [IdleRequest EXCEPT !.pc = "wait", !.mailbox = n.mailbox,
                                            !.next = subscribe, !.subPos = chan.tail,
                                            !.subAt = now, !.deadline = timeout(now)]]
  /\ UNCHANGED <<now, by_mailbox, lock, chan, appended, nextId, sess, cli, call, main>>

\* Receiver::recv finds the slot of its next position overwritten.
Lagging(r) == chan.tail - rq[r].next > Capacity

\* A lagged receiver moved to the tail, past the events the ring still holds.
oldest_skipping_ring(ch) == ch.tail

\* The position a lagged receiver is moved to: the oldest slot still held.
oldest(ch) == ch.tail - Capacity

\* The filter of line 238 left out.
matches_any(event, mailbox) == TRUE

\* if event.mailbox == mailbox (line 238)
matches(event, mailbox) == event.mailbox = mailbox

\* Ok(Ok(event)): a matching event ends the request with 200, any other one is
\* dropped and the loop starts a new timeout(25 s, recv()).
NextRecv(r) ==
  /\ rq[r].pc = "wait"
  /\ ~Lagging(r)
  /\ rq[r].next < chan.tail
  /\ LET pos == rq[r].next + 1
         event == ring_at(chan, pos)
     IN rq' = [rq EXCEPT ![r] =
                 IF matches(event, rq[r].mailbox)
                   THEN [@ EXCEPT !.pc = "done", !.status = 200, !.event = event,
                                  !.next = pos, !.endAt = now]
                   ELSE [@ EXCEPT !.next = pos, !.deadline = timeout(now)]]
  /\ UNCHANGED <<now, by_mailbox, lock, chan, appended, nextId, sess, cli, call, main>>

\* Ok(Err(Lagged(_))) => continue: the receiver skips to the oldest event the
\* ring still holds and the loop starts a new timeout(25 s, recv()).
NextLagged(r) ==
  /\ rq[r].pc = "wait"
  /\ Lagging(r)
  /\ rq' = [rq EXCEPT ![r].next = oldest(chan), ![r].deadline = timeout(now)]
  /\ UNCHANGED <<now, by_mailbox, lock, chan, appended, nextId, sess, cli, call, main>>

\* Err(_): the timeout armed by the current turn of the loop elapsed with
\* nothing to receive; 204.
NextTimeout(r) ==
  /\ rq[r].pc = "wait"
  /\ rq[r].next = chan.tail
  /\ now >= rq[r].deadline
  /\ rq' = [rq EXCEPT ![r].pc = "done", ![r].status = 204, ![r].endAt = now]
  /\ UNCHANGED <<now, by_mailbox, lock, chan, appended, nextId, sess, cli, call, main>>

\* The clock advances; a request whose timeout is due answers before it does.
Tick ==
  /\ now < MaxClock
  /\ \A r \in Requests : rq[r].pc = "wait" => now < rq[r].deadline
  /\ now' = now + 1
  /\ UNCHANGED <<by_mailbox, lock, chan, appended, nextId, sess, cli, rq, call, main>>

(***************************************************************************)
(* store.rs: Store::add called on a bucket                                 *)
(***************************************************************************)
\* A bucket of mailbox "a" whose i-th message has id i and received_at rs[i].
BucketOf(rs) ==
  [i \in 1..Len(rs) |->
     [id |-> i, mailbox |-> <<"a">>, to |-> <<"a","@","x">>, from |-> <<>>,
      received_at |-> rs[i]]]

\* A call of Store::add at time t on a store whose bucket of "a" holds up to
\* max_messages messages received up to t, with a message whose received_at
\* is unset (0) or set by the caller to a time up to t.
AddCalls ==
  UNION { { [fn |-> "add", pc |-> "ready",
             store |-> IF rs = <<>> THEN <<>>
                       ELSE MapInsert(<<>>, <<"a">>, BucketOf(rs)),
             mailbox |-> <<"A", " ">>,
             message |-> [id |-> MaxMessages + 1, mailbox |-> <<>>,
                          to |-> <<"a","@","x">>, from |-> <<>>, received_at |-> r],
             t |-> t, result |-> <<>>] :
              rs \in SeqsUpTo(1..t, MaxMessages), r \in 0..t } : t \in 1..MaxClock }

\* Lines 80-93.
AddEnter ==
  /\ call.fn = "add" /\ call.pc = "ready"
  /\ LET e == add_enter(call.mailbox, call.message, call.t)
     IN call' = [call EXCEPT !.pc = "entered", !.mailbox = e.mailbox,
                             !.message = e.message]
  /\ UNCHANGED <<now, by_mailbox, lock, chan, appended, nextId, sess, cli, rq, main>>

\* Lines 94-106.
AddPushed ==
  /\ call.fn = "add" /\ call.pc = "entered"
  /\ call' = [call EXCEPT
               !.pc = "returned",
               !.result = add_push(call.store, call.mailbox, call.message, call.t)]
  /\ UNCHANGED <<now, by_mailbox, lock, chan, appended, nextId, sess, cli, rq, main>>

(***************************************************************************)
(* address.rs called on rendered addresses                                 *)
(***************************************************************************)
\* Local parts: two that match MAILBOX_PATTERN, one that matches it once
\* lower-cased and one that never does.
AddressMailboxes == { <<"a">>, <<"0","-">>, <<"A">>, <<"-">> }

\* Domains: non-empty strings of a lower-case letter, an upper-case letter,
\* a blank, '@' and the two angle brackets.
AddressDomains == SeqsUpTo({"x", "A", " ", "@", "<", ">"}, MaxDomainLen) \ {<<>>}

\* What a caller writes for (mailbox, domain): the local part alone,
\* mailbox@domain, that in one pair of angle brackets, and that with
\* whitespace around it.
render(mailbox, domain, form) ==
  CASE form = "local"  -> mailbox
    [] form = "plain"  -> mailbox \o <<"@">> \o domain
    [] form = "angle"  -> <<"<">> \o mailbox \o <<"@">> \o domain \o <<">">>
    [] form = "padded" -> <<" ", "<">> \o mailbox \o <<"@">> \o domain \o <<">", "\t">>

\* A call of parse_email or of normalize_mailbox about to be made: expected
\* is the expected_domain of normalize_mailbox, the domain itself, none or
\* the configured one.
AddressCalls ==
  { [fn |-> fn, pc |-> "ready", mailbox |-> mailbox, domain |-> domain,
     form |-> form, expected |-> expected, input |-> <<>>, result |-> <<>>] :
      fn \in {"parse_email", "normalize_mailbox"}, mailbox \in AddressMailboxes,
      domain \in AddressDomains, form \in {"local", "plain", "angle", "padded"},
      expected \in {"domain", "none", "cfg"} }

\* The caller renders the address.
AddressRender ==
  /\ call.fn \in {"parse_email", "normalize_mailbox"} /\ call.pc = "ready"
  /\ call' = [call EXCEPT
               !.pc = "rendered",
               !.input = render(call.mailbox, call.domain, call.form),
               !.expected = CASE call.expected = "domain" -> call.domain
                              [] call.expected = "none"   -> <<>>
                              [] call.expected = "cfg"    -> cfg_domain]
  /\ UNCHANGED <<now, by_mailbox, lock, chan, appended, nextId, sess, cli, rq, main>>

ParseEmail ==
  /\ call.fn = "parse_email" /\ call.pc = "rendered"
  /\ call' = [call EXCEPT !.pc = "returned", !.result = parse_email(call.input)]
  /\ UNCHANGED <<now, by_mailbox, lock, chan, appended, nextId, sess, cli, rq, main>>

NormalizeMailbox ==
  /\ call.fn = "normalize_mailbox" /\ call.pc = "rendered"
  /\ call' = [call EXCEPT !.pc = "returned",
                          !.result = normalize_mailbox(call.input, call.expected)]
  /\ UNCHANGED <<now, by_mailbox, lock, chan, appended, nextId, sess, cli, rq, main>>

(***************************************************************************)
(* main.rs: shutdown; smtp_server.rs: run                                  *)
(***************************************************************************)
\* Lines 84-93: ctrl_c() resolves, shutdown_tx.send(true) sets the flag, and
\* the timeout around the three joins is armed.
Interrupt ==
  /\ main.pc = "ctrl_c"
  /\ now + ShutdownWait <= MaxClock
  /\ main' = [main EXCEPT !.shutdown = TRUE, !.pc = "shutdown_wait", !.at = now,
                          !.deadline = now + ShutdownWait]
  /\ UNCHANGED <<now, by_mailbox, lock, chan, appended, nextId, sess, cli, rq, call>>

\* smtp_server::run is in its loop: listener.accept() is polled only there.
accepting(m) == m.smtp_task = "run"

\* smtp_server.rs 45-54: a connection is accepted and its session spawned.
SmtpAccept ==
  /\ accepting(main)
  /\ main.sessions < MaxSessions
  /\ main' = [main EXCEPT !.sessions = @ + 1]
  /\ UNCHANGED <<now, by_mailbox, lock, chan, appended, nextId, sess, cli, rq, call>>

\* smtp_server.rs 56-61: changed() resolves with the flag set and the loop
\* breaks; the sessions it spawned are detached tasks and stay.
SmtpBreak ==
  /\ main.smtp_task = "run"
  /\ main.shutdown
  /\ main' = [main EXCEPT !.smtp_task = "done"]
  /\ UNCHANGED <<now, by_mailbox, lock, chan, appended, nextId, sess, cli, rq, call>>

\* handle_connection returns (QUIT, end of input or an error).
SessionEnd ==
  /\ main.sessions > 0
  /\ main' = [main EXCEPT !.sessions = @ - 1]
  /\ UNCHANGED <<now, by_mailbox, lock, chan, appended, nextId, sess, cli, rq, call>>

\* main.rs 53-57: the pruner sees the flag and breaks.
CleanupBreak ==
  /\ main.cleanup_task = "run"
  /\ main.shutdown
  /\ main' = [main EXCEPT !.cleanup_task = "done"]
  /\ UNCHANGED <<now, by_mailbox, lock, chan, appended, nextId, sess, cli, rq, call>>

\* axum::serve accepts a request while it is not shutting down.
HttpRequest ==
  /\ main.http_task = "run"
  /\ main.inflight < MaxInflight
  /\ main' = [main EXCEPT !.inflight = @ + 1]
  /\ UNCHANGED <<now, by_mailbox, lock, chan, appended, nextId, sess, cli, rq, call>>

\* A request in flight is answered.
HttpResponse ==
  /\ main.http_task \in {"run", "drain"}
  /\ main.inflight > 0
  /\ main' = [main EXCEPT !.inflight = @ - 1]
  /\ UNCHANGED <<now, by_mailbox, lock, chan, appended, nextId, sess, cli, rq, call>>

\* main.rs 75-77: the graceful-shutdown future resolves; the server stops
\* accepting and waits for the requests in flight.
HttpShutdown ==
  /\ main.http_task = "run"
  /\ main.shutdown
  /\ main' = [main EXCEPT !.http_task = "drain"]
  /\ UNCHANGED <<now, by_mailbox, lock, chan, appended, nextId, sess, cli, rq, call>>

\* main.rs 79: server.await returns once nothing is in flight.
HttpDrained ==
  /\ main.http_task = "drain"
  /\ main.inflight = 0
  /\ main' = [main EXCEPT !.http_task = "done"]
  /\ UNCHANGED <<now, by_mailbox, lock, chan, appended, nextId, sess, cli, rq, call>>

\* A task at the moment the runtime is dropped.
dropped(task) == IF task = "done" THEN "done" ELSE "dropped"

\* main returns Ok(()) at t: the runtime is dropped and with it every task
\* that has not returned, sessions and requests included.
return(m, t) ==
  [m EXCEPT !.pc = "returned", !.end = t,
            !.smtp_task = dropped(@), !.http_task = dropped(@),
            !.cleanup_task = dropped(@), !.sessions = 0, !.inflight = 0]

\* The three joins of lines 94-96 have all completed.
joined(m) ==
  m.http_task = "done" /\ m.smtp_task = "done" /\ m.cleanup_task = "done"

\* A supervisor that joins the tasks without a timeout.
shutdown_wait_unbounded(m, t) == joined(m)

\* main.rs 93-98: timeout(10 s, joins) is over at t.
shutdown_wait(m, t) == joined(m) \/ t >= m.deadline

\* main.rs 93-104: the wait is over and main returns.
Return ==
  /\ main.pc = "shutdown_wait"
  /\ shutdown_wait(main, now)
  /\ main' = return(main, now)
  /\ UNCHANGED <<now, by_mailbox, lock, chan, appended, nextId, sess, cli, rq, call>>

\* The clock advances; the shutdown timeout fires before it passes its
\* deadline.
Elapse ==
  /\ main.pc = "shutdown_wait" => now < main.deadline
  /\ Tick

(***************************************************************************)
(* Specifications                                                          *)
(***************************************************************************)
\* The replies of the command a session has just handled are written.
Replied(s) == sess[s].pc \in {"cmd", "stray", "closed"} /\ sess[s].reply # <<>>

\* A response has just been written: cli[c], rq[r] or sess[s] shows what was
\* returned.
Observed ==
  \/ \E c \in Clients : cli[c].pc = "done"
  \/ \E r \in Requests : rq[r].pc = "done"
  \/ \E s \in Sessions : Replied(s)

ClosedRequest == [IdleRequest EXCEPT !.pc = "closed"]

\* The response leaves with its caller: nothing of the program reads it, so
\* the record of it is dropped before anything else moves.
Ack ==
  /\ Observed
  /\ cli' = [c \in Clients |-> IF cli[c].pc = "done" THEN IdleClient ELSE cli[c]]
  /\ rq' = [r \in Requests |-> IF rq[r].pc = "done" THEN ClosedRequest ELSE rq[r]]
  /\ sess' = [s \in Sessions |->
               IF Replied(s) THEN [sess[s] EXCEPT !.reply = <<>>] ELSE sess[s]]
  /\ UNCHANGED <<now, by_mailbox, lock, chan, appended, nextId, call, main>>

\* One SMTP session whose client names its recipients from `inputs` and
\* sends a short body that parses and has no From header.
SmtpTo(s, inputs) ==
  \/ \E to \in inputs : SmtpRcpt(s, to)
  \/ SmtpData(s, GoodBody, PlainParse)
  \/ AddLock(s)
  \/ AddPublish(s)

Smtp(s) == SmtpTo(s, RcptInputs)

List(c) ==
  \/ \E raw \in MailboxInputs : BadRequest(c, raw)
  \/ \E raw \in MailboxInputs : CallStart(c, "list", raw, 0)
  \/ ListLocked(c)

Get(c) ==
  \/ \E raw \in MailboxInputs : \E id \in 1..MaxIds : CallStart(c, "get", raw, id)
  \/ GetLocked(c)

Cleanup(c) ==
  \/ CleanupStart(c)
  \/ CleanupLocked(c)

Remove(c) ==
  \/ \E raw \in MailboxInputs : \E id \in {EmptyId} \cup 1..MaxIds : Delete(c, raw, id)
  \/ \E raw \in MailboxInputs : Clear(c, raw)

\* The loop of next_mailbox_event over recv.
Poll(r) ==
  \/ \E raw \in MailboxInputs : NextSubscribe(r, raw)
  \/ NextRecv(r)
  \/ NextLagged(r)

\* The store under an SMTP session, listing, deleting and clearing callers and
\* the pruner.
Next ==
  \/ Ack
  \/ ~Observed /\ Tick
  \/ ~Observed /\ \E s \in {"s1"} : Smtp(s)
  \/ ~Observed /\ \E c \in Clients : List(c)
  \/ ~Observed /\ \E c \in Clients : Cleanup(c)
  \/ ~Observed /\ \E c \in Clients : Remove(c)

Spec == Init /\ [][Next]_vars

\* The readers of the store: list, get and the pruner under an SMTP session.
NextRead ==
  \/ Ack
  \/ ~Observed /\ Tick
  \/ ~Observed /\ \E s \in {"s1"} : Smtp(s)
  \/ ~Observed /\ \E c \in Clients : List(c)
  \/ ~Observed /\ \E c \in Clients : Get(c)
  \/ ~Observed /\ \E c \in Clients : Cleanup(c)

SpecRead == Init /\ [][NextRead]_vars

\* Concurrent SMTP sessions delivering to one mailbox while a caller lists it.
NextSessions ==
  \/ Ack
  \/ ~Observed /\ Tick
  \/ ~Observed /\ \E s \in Sessions : SmtpTo(s, SameMailboxInputs)
  \/ ~Observed /\ \E c \in Clients : CallStart(c, "list", <<"a">>, 0)
  \/ ~Observed /\ \E c \in Clients : ListLocked(c)

SpecSessions == Init /\ [][NextSessions]_vars

\* The event feed under the clock: a delivering session and one events/next
\* request.
NextEvents ==
  \/ Ack
  \/ ~Observed /\ Tick
  \/ ~Observed /\ \E s \in {"s1"} : Smtp(s)
  \/ ~Observed /\ \E r \in {"r1"} : Poll(r)
  \/ ~Observed /\ \E r \in {"r1"} : NextTimeout(r)

SpecEvents == Init /\ [][NextEvents]_vars

\* read_data_block on the bodies of DataCalls.
NextData ==
  \/ DataSend
  \/ DataRead

InitData == Constructed /\ call \in DataCalls

SpecData == InitData /\ [][NextData]_vars

\* The command loop of one SMTP connection after another.
NextSmtp ==
  \/ Ack
  \/ ~Observed /\ \E arg \in MailInputs : SmtpMail("s1", arg)
  \/ ~Observed /\ \E to \in RcptInputs : SmtpRcpt("s1", to)
  \/ ~Observed /\ SmtpRset("s1")
  \/ ~Observed /\ \E verb \in SmtpVerbs : SmtpReply("s1", verb)
  \/ ~Observed /\ \E quit \in BOOLEAN : SmtpClose("s1", quit)
  \/ ~Observed /\ SmtpConnect("s1")
  \/ ~Observed /\ \E body \in DataInputs : \E parse \in ParseOutcomes :
                     SmtpData("s1", body, parse)
  \/ ~Observed /\ SmtpStray("s1")
  \/ ~Observed /\ AddLock("s1")
  \/ ~Observed /\ AddPublish("s1")

SpecSmtp == Init /\ [][NextSmtp]_vars

\* The event feed under removals: a session delivering to one mailbox, a
\* deleting and clearing caller and one events/next request.
NextFeed ==
  \/ Ack
  \/ ~Observed /\ \E s \in {"s1"} : SmtpTo(s, SameMailboxInputs)
  \/ ~Observed /\ \E c \in Clients : Remove(c)
  \/ ~Observed /\ \E r \in {"r1"} : Poll(r)

SpecFeed == Init /\ [][NextFeed]_vars

\* The event feed under pruning: a session delivering to the mailbox "a", a
\* caller that lists, reads, deletes from and clears that mailbox, the pruner
\* and one events/next request on it whose recv is pending, under the clock.
NextPrune ==
  \/ Ack
  \/ ~Observed /\ Tick
  \/ ~Observed /\ \E s \in {"s1"} : SmtpTo(s, {<<"T","O",":","a">>})
  \/ ~Observed /\ \E c \in Clients : CallStart(c, "list", <<"a">>, 0)
  \/ ~Observed /\ \E c \in Clients : ListLocked(c)
  \/ ~Observed /\ \E c \in Clients : CallStart(c, "get", <<"a">>, 1)
  \/ ~Observed /\ \E c \in Clients : GetLocked(c)
  \/ ~Observed /\ \E c \in Clients : Cleanup(c)
  \/ ~Observed /\ \E c \in Clients : \E id \in 1..MaxIds : Delete(c, <<"a">>, id)
  \/ ~Observed /\ \E c \in Clients : Clear(c, <<"a">>)
  \/ ~Observed /\ \E r \in {"r1"} : NextSubscribe(r, <<"a">>)

SpecPrune == Init /\ [][NextPrune]_vars

\* Store::add on every bucket and message of AddCalls.
NextAdd ==
  \/ AddEnter
  \/ AddPushed

InitAdd == Constructed /\ call \in AddCalls

SpecAdd == InitAdd /\ [][NextAdd]_vars

\* parse_email and normalize_mailbox on every rendered address.
NextAddress ==
  \/ AddressRender
  \/ ParseEmail
  \/ NormalizeMailbox

InitAddress == Constructed /\ call \in AddressCalls

SpecAddress == InitAddress /\ [][NextAddress]_vars

\* main() from the spawn of its tasks to its return.
NextShutdown ==
  \/ Interrupt
  \/ SmtpAccept
  \/ SmtpBreak
  \/ SessionEnd
  \/ CleanupBreak
  \/ HttpRequest
  \/ HttpResponse
  \/ HttpShutdown
  \/ HttpDrained
  \/ Return
  \/ Elapse

SpecShutdown == Init /\ [][NextShutdown]_vars

\* Every task on the runtime is polled once it can make progress (a select!
\* whose changed() branch is ready takes it), and timers fire.
SpecShutdownFair ==
  /\ SpecShutdown
  /\ WF_vars(SmtpBreak)
  /\ WF_vars(CleanupBreak)
  /\ WF_vars(HttpShutdown)
  /\ WF_vars(HttpDrained)
  /\ WF_vars(Return)
  /\ WF_vars(Elapse)

\* The event feed with the tasks scheduled fairly: a response that is written
\* leaves, a request whose recv is ready or lagged or whose timeout is due
\* runs, and the clock advances.
SpecEventsFair ==
  /\ Init
  /\ [][NextEvents]_vars
  /\ WF_vars(Ack)
  /\ WF_vars(~Observed /\ Tick)
  /\ WF_vars(~Observed /\ \E r \in {"r1"} : NextRecv(r))
  /\ WF_vars(~Observed /\ \E r \in {"r1"} : NextLagged(r))
  /\ WF_vars(~Observed /\ \E r \in {"r1"} : NextTimeout(r))

\* Receivers that subscribe at different points of the feed a delivering
\* session writes.
NextSubscribers ==
  \/ Ack
  \/ ~Observed /\ \E s \in {"s1"} : Smtp(s)
  \/ ~Observed /\ \E r \in Requests : Poll(r)

SpecSubscribers == Init /\ [][NextSubscribers]_vars

(***************************************************************************)
(* Properties                                                              *)
(***************************************************************************)
Fresh(message, t) == message.received_at >= t - TTL

Total(bm) == SumOver(DOMAIN bm, [m \in DOMAIN bm |-> Len(bm[m])])

Answered(c, op) == cli[c].pc = "done" /\ cli[c].op = op

\* C1: in every reachable state each bucket holds at most max_messages
\* messages, and so does every list a caller is given.
BucketsWithinCapacity ==
  /\ \A m \in DOMAIN by_mailbox : Len(by_mailbox[m]) <= MaxMessages
  /\ \A c \in Clients : Answered(c, "list") => Len(cli[c].msgs) <= MaxMessages

\* More than max_messages unexpired messages were pushed to one bucket by one
\* transaction, and the bucket is full.
CapacityEviction ==
  \E s \in Sessions :
    /\ sess[s].pc = "locked"
    /\ sess[s].idx > MaxMessages
    /\ \A i \in 1..sess[s].idx : sess[s].tx.recipients[i].mailbox = sess[s].mailbox
    /\ sess[s].stamp >= sess[s].anow - TTL
    /\ BucketLen(by_mailbox, sess[s].mailbox) = MaxMessages

\* C2: list and get never return a message whose received_at is earlier than
\* the time of the call (the now the call samples) minus ttl.
ReadsAreFresh ==
  \A c \in Clients :
    Answered(c, "list") \/ Answered(c, "get") =>
      \A i \in 1..Len(cli[c].msgs) : Fresh(cli[c].msgs[i], cli[c].now)

\* A get called when the messages of the first tick have expired finds its
\* message.
GetAfterExpiry ==
  \E c \in Clients :
    Answered(c, "get") /\ cli[c].msgs # <<>> /\ ~Fresh([received_at |-> 1], cli[c].now)

\* C3: when cleanup_expired returns, no bucket holds a message with received_at
\* earlier than its now minus ttl, every other message is still there, and the
\* value returned is the number of messages the call removed over all buckets.
CleanupRemovesExpired ==
  [][\A c \in Clients :
       cli[c].pc = "cleanup" /\ cli'[c].pc = "done" =>
         /\ \A m \in DOMAIN by_mailbox' :
              \A i \in 1..Len(by_mailbox'[m]) : Fresh(by_mailbox'[m][i], cli[c].now)
         /\ \A m \in DOMAIN by_mailbox :
              list_result(by_mailbox', m) =
                Reverse(SelectSeq(by_mailbox[m], LAMBDA item : Fresh(item, cli[c].now)))
         /\ cli'[c].n = Total(by_mailbox) - Total(by_mailbox')]_vars

\* cleanup_expired removed messages and left the map without a bucket.
CleanupRemovedAll ==
  \E c \in Clients : Answered(c, "cleanup") /\ cli[c].n >= 1 /\ DOMAIN by_mailbox = {}

\* C4: a mailbox key is either absent from the map or maps to a bucket with at
\* least one message.
NoEmptyBucket == \A m \in DOMAIN by_mailbox : by_mailbox[m] # <<>>

\* A delete took the last message of a bucket, and the key is gone.
LastMessageDeleted ==
  \E c \in Clients :
    Answered(c, "delete") /\ cli[c].n = 1 /\ cli[c].mailbox \notin DOMAIN by_mailbox

\* C5: list returns the messages in decreasing received_at order (ties in any
\* order), whatever the interleaving of the sessions delivering to the mailbox.
ListNewestFirst ==
  \A c \in Clients :
    Answered(c, "list") =>
      \A i \in 1..(Len(cli[c].msgs) - 1) :
        cli[c].msgs[i].received_at >= cli[c].msgs[i + 1].received_at

PublishedInAppendOrder ==
  [][/\ Len(appended') < Len(appended) => appended' = Tail(appended)
     /\ appended # <<>> => by_mailbox' = by_mailbox]_vars

\* One session holds the lock between its push and its event while the other
\* waits to push to the same mailbox.
AddWaitsForPublisher ==
  \E s, t \in Sessions :
    /\ sess[s].pc = "locked" /\ appended = <<sess[s].msg.id>>
    /\ sess[t].pc = "add" /\ sess[t].mailbox = sess[s].mailbox

\* C8: a receiver never observes an event published before it subscribed: it
\* starts at the tail of the feed and the event of a 200 lies behind that.
SubscriberSeesOnlyLater ==
  \A r \in Requests :
    /\ rq[r].pc = "wait" => rq[r].subPos <= rq[r].next
    /\ rq[r].pc = "done" /\ rq[r].status = 200 => rq[r].subPos < rq[r].next

\* A request that subscribed after events had been published answered 200.
LateSubscriberAnswered ==
  \E r \in Requests : rq[r].pc = "done" /\ rq[r].status = 200 /\ rq[r].subPos >= 1

\* C9: events/next responds no later than the timeout after it subscribed,
\* with 200 or 204.
RespondsWithinBudget ==
  \A r \in Requests :
    rq[r].pc = "done" /\ rq[r].status \in {200, 204} =>
      rq[r].endAt <= rq[r].subAt + PollTimeout

\* C10: a 200 of events/next carries one event, of the normalized requested
\* mailbox and published after the request subscribed; an event of any other
\* mailbox is dropped and the request goes on waiting.
OnlyMatchingEventReturned ==
  [][\A r \in Requests :
       /\ rq[r].pc = "idle" /\ rq'[r].pc = "wait" =>
            \E raw \in MailboxInputs :
              /\ normalize_mailbox(raw, cfg_domain).ok
              /\ rq'[r].mailbox = normalize_mailbox(raw, cfg_domain).mailbox
       /\ rq'[r].status = 200 /\ rq[r].status # 200 =>
            /\ rq[r].pc = "wait"
            /\ rq'[r].event = ring_at(chan, rq[r].next + 1)
            /\ rq'[r].event.mailbox = rq[r].mailbox
            /\ rq'[r].next > rq[r].subPos
       /\ /\ rq[r].pc = "wait" /\ rq'[r] # rq[r]
          /\ rq[r].next < chan.tail /\ chan.tail - rq[r].next <= Capacity
          /\ ring_at(chan, rq[r].next + 1).mailbox # rq[r].mailbox
          => rq'[r].pc = "wait" /\ rq'[r].status = 0]_vars

\* A request dropped an event of another mailbox and then answered 200.
AnsweredAfterDiscard ==
  \E r \in Requests :
    rq[r].pc = "done" /\ rq[r].status = 200 /\ rq[r].next >= rq[r].subPos + 2

\* An event of the mailbox of the waiting request r lies in the ring, ahead of
\* the receiver of r.
MatchingUnread(r) ==
  /\ rq[r].pc = "wait"
  /\ \E pos \in (rq[r].next + 1)..chan.tail :
       /\ pos > chan.tail - Len(chan.buf)
       /\ ring_at(chan, pos).mailbox = rq[r].mailbox

Returns(c, op) == cli[c].pc = "idle" /\ cli'[c].pc = "done" /\ cli'[c].op = op

Holds(bm, mailbox, id) ==
  mailbox \in DOMAIN bm /\ \E i \in 1..Len(bm[mailbox]) : bm[mailbox][i].id = id

\* C12 as stated: delete(m, id) returns true exactly when a list(m) issued
\* immediately before it would have contained id, also for a message past its
\* TTL that is not yet pruned; afterwards get(m, id) is absent.
DeleteIffListed ==
  [][\A c \in Clients :
       Returns(c, "delete") =>
         LET m == cli'[c].mailbox
             id == cli'[c].id
         IN /\ (cli'[c].n = 1) <=>
                  Holds(prune_mailbox(by_mailbox, m, now, TTL, MaxMessages), m, id)
            /\ get_result(by_mailbox', m, id) = <<>>]_vars

\* C12: delete(m, id) returns true exactly when the bucket of m holds a message
\* with that id, expired or not (delete does not prune); afterwards the bucket
\* holds no message with that id, so get(m, id) is absent.
DeleteIffHeld ==
  [][\A c \in Clients :
       Returns(c, "delete") =>
         LET m == cli'[c].mailbox
             id == cli'[c].id
         IN /\ (cli'[c].n = 1) <=> Holds(by_mailbox, m, id)
            /\ ~Holds(by_mailbox', m, id)
            /\ get_result(by_mailbox', m, id) = <<>>]_vars

\* A delete returned true for the older of two messages past their TTL: the
\* younger one is still in the bucket, unpruned.
DeletedExpired ==
  \E c \in Clients :
    /\ Answered(c, "delete") /\ cli[c].n = 1
    /\ cli[c].mailbox \in DOMAIN by_mailbox
    /\ \E i \in 1..Len(by_mailbox[cli[c].mailbox]) :
         /\ by_mailbox[cli[c].mailbox][i].id > cli[c].id
         /\ ~Fresh(by_mailbox[cli[c].mailbox][i], now)

\* The last event written to the ring is ev and a waiting receiver has not
\* read it yet, so no send was dropped since.
LastUnread(ev) ==
  /\ chan.buf # <<>>
  /\ chan.buf[Len(chan.buf)] = ev
  /\ \E r \in Requests : rq[r].pc = "wait" /\ rq[r].next < chan.tail

\* C13: clear(m) returns the number of messages the bucket held and removes
\* the bucket, leaving the other buckets alone; a clear(m) repeated on the
\* result returns 0 and changes nothing, and a clear of a mailbox that has no
\* bucket (as after a clear with no add since) returns 0, leaves the store
\* unchanged and publishes no event.
ClearIdempotent ==
  [][\A c \in Clients :
       Returns(c, "clear") =>
         LET m == cli'[c].mailbox
             again == clear(by_mailbox', m)
         IN /\ cli'[c].n = BucketLen(by_mailbox, m)
            /\ DOMAIN by_mailbox' = DOMAIN by_mailbox \ {m}
            /\ \A k \in DOMAIN by_mailbox' : by_mailbox'[k] = by_mailbox[k]
            /\ again.removed = 0 /\ again.map = by_mailbox'
            /\ m \notin DOMAIN by_mailbox =>
                 cli'[c].n = 0 /\ by_mailbox' = by_mailbox /\ chan' = chan]_vars

\* A second clear returned 0: the Cleared event of the first one is still the
\* last event of the feed, unread, so nothing was added in between.
SecondClear ==
  \E c \in Clients :
    /\ Answered(c, "clear") /\ cli[c].n = 0
    /\ LastUnread(StoreEvent("cleared", cli[c].mailbox, None))

\* The calls of events_tx.send in a step are exactly ev: written to the ring
\* when a receiver exists, dropped otherwise.
Published(ev) == chan' = IF rx_cnt > 0 THEN ring_write(chan, ev) ELSE chan

\* C14: a delete that removed a message publishes Deleted{mailbox, id} and a
\* clear that removed at least one message publishes Cleared{mailbox} without
\* a message id; a delete that returns false (no matching id, absent mailbox),
\* a delete with an empty id and a clear that removed nothing publish nothing
\* and leave every bucket unchanged; no other step publishes such an event.
RemovalEvents ==
  [][/\ \A c \in Clients :
          Returns(c, "delete") =>
            IF cli'[c].n = 1
              THEN /\ Published(StoreEvent("deleted", cli'[c].mailbox, Some(cli'[c].id)))
                   /\ Total(by_mailbox') = Total(by_mailbox) - 1
              ELSE chan' = chan /\ by_mailbox' = by_mailbox
     /\ \A c \in Clients :
          Returns(c, "clear") =>
            IF cli'[c].n > 0
              THEN Published(StoreEvent("cleared", cli'[c].mailbox, None))
              ELSE chan' = chan /\ by_mailbox' = by_mailbox
     /\ \A c \in Clients :
          Returns(c, "400") => chan' = chan /\ by_mailbox' = by_mailbox
     /\ \A m \in DOMAIN by_mailbox :
          LET r == delete(by_mailbox, m, EmptyId)
          IN ~r.deleted /\ r.map = by_mailbox
     /\ (chan'.tail # chan.tail /\ chan'.buf[Len(chan'.buf)].event = "deleted") =>
          \E c \in Clients : Returns(c, "delete") /\ cli'[c].n = 1
     /\ (chan'.tail # chan.tail /\ chan'.buf[Len(chan'.buf)].event = "cleared") =>
          \E c \in Clients : Returns(c, "clear") /\ cli'[c].n > 0]_vars

\* A delete removed a message while a request waits: its Deleted event is the
\* last of the feed.
DeletedPublished ==
  \E c \in Clients :
    /\ Answered(c, "delete") /\ cli[c].n = 1
    /\ LastUnread(StoreEvent("deleted", cli[c].mailbox, Some(cli[c].id)))

\* A step in which session s finishes a command: its replies are written.
Replies(s) == ~Replied(s) /\ Replied(s)'

LastReply(s) == sess[s].reply[Len(sess[s].reply)]

\* The replies that end a DATA command after 354.
DataEndings ==
  { Reply(250, "message accepted"), Reply(552, "message too large"),
    Reply(451, "failed to read message"), Reply(451, "message terminated unexpectedly"),
    Reply(550, "invalid message content") }

\* C15: the transaction (sender and recipients) is empty at connection start
\* and right after every RSET, every DATA completion (250 message accepted)
\* and every DATA failure (552, 451, 550 invalid message content); after a
\* parse failure the connection is still open, reading commands.
TransactionEmptied ==
  /\ \A s \in Sessions : sess[s].tx = Transaction_default
  /\ [][\A s \in Sessions :
          /\ (SmtpRset(s) \/ SmtpConnect(s)) => sess'[s].tx = Transaction_default
          /\ (Replies(s) /\ LastReply(s)' \in DataEndings) =>
               sess'[s].tx = Transaction_default
          /\ (Replies(s) /\ LastReply(s)' = Reply(550, "invalid message content")) =>
               sess'[s].pc = "cmd"]_vars

\* A body that did not parse was refused on a connection that stays open.
ParseFailureReplied ==
  \E s \in Sessions :
    /\ Replied(s) /\ sess[s].pc = "cmd"
    /\ LastReply(s) = Reply(550, "invalid message content")

\* C16: DATA with an empty recipient list is answered 554 no recipients and
\* nothing else (no 354); the session keeps reading commands, its sender is
\* unchanged and nothing is added to the store.
NoRecipientsRefused ==
  [][\A s \in Sessions :
       /\ (sess[s].tx.recipients = <<>> /\
            \E body \in DataInputs : \E parse \in ParseOutcomes : SmtpData(s, body, parse)) =>
            sess'[s].reply = <<Reply(554, "no recipients")>>
       /\ (Replies(s) /\ Reply(554, "no recipients") \in
                           {sess'[s].reply[i] : i \in 1..Len(sess'[s].reply)}) =>
            /\ sess'[s].reply = <<Reply(554, "no recipients")>>
            /\ sess[s].tx.recipients = <<>>
            /\ sess'[s].pc = "cmd"
            /\ sess'[s].tx = sess[s].tx
            /\ by_mailbox' = by_mailbox /\ nextId' = nextId /\ chan' = chan]_vars

\* DATA was refused with 554 in a transaction that has a sender.
DataWithoutRecipients ==
  \E s \in Sessions :
    /\ Replied(s) /\ sess[s].reply = <<Reply(554, "no recipients")>>
    /\ sess[s].tx.from # <<>>

\* The ids of the messages the store holds.
StoredIds(bm) == UNION {{bm[m][i].id : i \in 1..Len(bm[m])} : m \in DOMAIN bm}

\* C17: after a DATA body that ended and parsed, the session enters Store::add
\* once for each entry of the recipient list, in order (idx = 1, 2, ...), each
\* time with a fresh id, mailbox = that recipient's mailbox and to = its
\* rendered address, and the message is pushed to that bucket; 250 message
\* accepted is replied only after the add of the last entry, and the store
\* gets no message on any other step.
OneAddPerRecipient ==
  [][/\ \A s \in Sessions :
            LET n == Len(sess[s].tx.recipients)
            IN /\ (sess[s].pc # "add" /\ sess'[s].pc = "add") =>
                    /\ sess'[s].tx = sess[s].tx
                    /\ sess'[s].idx = IF sess[s].pc = "cmd" THEN 1 ELSE sess[s].idx + 1
                    /\ sess'[s].idx <= n
                    /\ sess[s].pc = "cmd" =>
                         sess'[s].reply = <<Reply(354, "End data with <CR><LF>.<CR><LF>")>>
                    /\ sess'[s].msg.id = nextId /\ nextId' = nextId + 1
                    /\ sess'[s].msg.id \notin StoredIds(by_mailbox)
                    /\ sess'[s].msg.mailbox = sess[s].tx.recipients[sess'[s].idx].mailbox
                    /\ sess'[s].msg.to = sess[s].tx.recipients[sess'[s].idx].address
               /\ (sess[s].pc = "add" /\ sess'[s].pc # "add") =>
                    /\ sess'[s].pc = "locked"
                    /\ by_mailbox'[sess[s].msg.mailbox]
                         [Len(by_mailbox'[sess[s].msg.mailbox])] = sess[s].msg
                    /\ StoredIds(by_mailbox') \ StoredIds(by_mailbox) = {sess[s].msg.id}
               /\ (sess[s].pc = "locked" /\ sess'[s].pc = "cmd") =>
                    /\ sess[s].idx = n
                    /\ LastReply(s)' = Reply(250, "message accepted")
               /\ (Replies(s) /\ LastReply(s)' = Reply(250, "message accepted")) =>
                    sess[s].pc = "locked" /\ sess[s].idx = n
               /\ sess[s].pc = "cmd" => sess'[s].pc \in {"cmd", "stray", "add", "closed"}
               /\ sess[s].pc = "stray" => sess'[s].pc \in {"stray", "cmd", "closed"}
               /\ sess[s].pc = "locked" => sess'[s].pc \in {"locked", "add", "cmd"}
     /\ StoredIds(by_mailbox') \ StoredIds(by_mailbox) # {} =>
          \E s \in Sessions : sess[s].pc = "add" /\ sess'[s].pc = "locked"]_vars

\* A mailbox named twice in one transaction got two messages with the same
\* to and distinct ids, and 250 message accepted is replied.
RecipientListedTwice ==
  \E s \in Sessions : \E m \in DOMAIN by_mailbox :
    /\ Replied(s) /\ LastReply(s) = Reply(250, "message accepted")
    /\ Len(by_mailbox[m]) = 2
    /\ by_mailbox[m][1].to = by_mailbox[m][2].to
    /\ by_mailbox[m][2].id = by_mailbox[m][1].id + 1
    /\ by_mailbox[m][2].id = nextId - 1

\* The local part the RCPT argument names, once normalised, is blacklisted.
NamesBlacklisted(arg) ==
  LET e == extract_smtp_address(arg, <<"T","O",":">>)
  IN /\ e.ok
     /\ normalize_mailbox(e.value, cfg_domain).ok
     /\ to_ascii_lowercase(trim(normalize_mailbox(e.value, cfg_domain).mailbox))
          \in DEFAULT_MAILBOX_BLACKLIST

\* C18: RCPT with a blacklisted mailbox is answered 550 mailbox is blocked
\* and leaves the recipient list as it was; no recipient list and no bucket of
\* the store ever names a blacklisted mailbox.
BlacklistedNeverStored ==
  /\ [](/\ \A m \in DOMAIN by_mailbox : m \notin DEFAULT_MAILBOX_BLACKLIST
        /\ \A s \in Sessions : \A i \in 1..Len(sess[s].tx.recipients) :
             sess[s].tx.recipients[i].mailbox \notin DEFAULT_MAILBOX_BLACKLIST)
  /\ [][\A s \in Sessions : \A arg \in RcptInputs :
          (SmtpRcpt(s, arg) /\ NamesBlacklisted(arg)) =>
            /\ sess'[s].reply = <<Reply(550, "mailbox is blocked")>>
            /\ sess'[s].tx = sess[s].tx
            /\ by_mailbox' = by_mailbox]_vars

\* RCPT for a blacklisted mailbox was refused in a transaction that already
\* has a recipient.
BlockedRecipientRefused ==
  \E s \in Sessions :
    /\ Replied(s) /\ sess[s].reply = <<Reply(550, "mailbox is blocked")>>
    /\ sess[s].tx.recipients # <<>>

\* The domain of an address, as address::parse_email reads it, is denied.
DeniedAddress(address) ==
  parse_email(address).ok /\ parse_email(address).domain \in cfg_banned_sender_domains

\* C19: MAIL with a sender of a denied domain is answered 530 sender domain
\* is blocked and leaves the stored sender as it was; the sender of a
\* transaction is never an address of a denied domain, and a message that
\* takes its from value from the envelope (no From header) does not carry one.
SenderNeverDenied ==
  /\ [](\A s \in Sessions :
          /\ ~DeniedAddress(sess[s].tx.from)
          /\ (sess[s].pc \in {"add", "locked"} /\ sess[s].parsed.from = <<>>) =>
               sess[s].msg.from = sess[s].tx.from /\ ~DeniedAddress(sess[s].msg.from))
  /\ [][\A s \in Sessions : \A arg \in MailInputs :
          LET e == extract_smtp_address(arg, <<"F","R","O","M",":">>)
          IN (SmtpMail(s, arg) /\ e.ok /\ DeniedAddress(e.value)) =>
               /\ sess'[s].reply = <<Reply(530, "sender domain is blocked")>>
               /\ sess'[s].tx.from = sess[s].tx.from]_vars

\* MAIL with a denied sender was refused in a transaction that has a sender.
DeniedSenderRefused ==
  \E s \in Sessions :
    /\ Replied(s) /\ sess[s].reply = <<Reply(530, "sender domain is blocked")>>
    /\ sess[s].tx.from # <<>>

\* The bytes the first k lines of a body add to the buffer once unstuffed.
RECURSIVE Unstuffed(_, _)
Unstuffed(lines, k) ==
  IF k = 0 THEN 0
  ELSE Unstuffed(lines, k - 1) + Len(lines[k]) -
       (IF Len(lines[k]) >= 2 /\ lines[k][1] = "." /\ lines[k][2] = "." THEN 1 ELSE 0)

\* Before its terminator (or its end) the body passes max_message_bytes.
Oversize(body) ==
  \E k \in 1..Len(body.lines) :
    /\ \A i \in 1..k : body.lines[i] \notin {<<".", "\r", "\n">>, <<".", "\n">>, <<".">>}
    /\ Unstuffed(body.lines, k) > MaxMessageBytes

\* C20: a DATA body whose unstuffed buffer passes max_message_bytes is
\* answered 552 message too large, with the transaction reset and nothing
\* added; every buffer that is delivered has at most max_message_bytes bytes.
OversizeRefused ==
  /\ [](\A s \in Sessions :
          sess[s].pc \in {"add", "locked"} => Len(sess[s].raw) <= MaxMessageBytes)
  /\ [][\A s \in Sessions :
          /\ \A body \in DataInputs : \A parse \in ParseOutcomes :
               (SmtpData(s, body, parse) /\ sess[s].tx.recipients # <<>>) =>
                 (Oversize(body) <=>
                    LastReply(s)' = Reply(552, "message too large"))
          /\ (Replies(s) /\ LastReply(s)' = Reply(552, "message too large")) =>
               /\ sess'[s].tx = Transaction_default
               /\ sess'[s].pc \in {"cmd", "stray"}
               /\ by_mailbox' = by_mailbox /\ nextId' = nextId /\ chan' = chan]_vars

\* A body over the limit was refused with 552.
OversizeReplied ==
  \E s \in Sessions :
    /\ Replied(s) /\ LastReply(s) = Reply(552, "message too large")
    /\ sess[s].tx = Transaction_default

\* A body whose dot-stuffed line fills the limit exactly is being delivered.
FullBufferDelivered ==
  \E s \in Sessions : sess[s].pc = "locked" /\ Len(sess[s].raw) = MaxMessageBytes

RECURSIVE Flat(_)
Flat(lines) == IF lines = <<>> THEN <<>> ELSE Head(lines) \o Flat(Tail(lines))

\* What the lines before the first terminator store, line by line: a line
\* that starts with two dots without its first one, any other as it is.
RECURSIVE Stored(_)
Stored(wire) ==
  IF wire = <<>> \/ Head(wire) \in Terminators THEN <<>>
  ELSE (IF Len(Head(wire)) >= 2 /\ Head(wire)[1] = "." /\ Head(wire)[2] = "."
          THEN Tail(Head(wire)) ELSE Head(wire)) \o Stored(Tail(wire))

\* C21: read_data_block returns what was sent before the lone dot line, each
\* line that starts with two dots without its first dot and every other line
\* verbatim, so for a body the client dot-stuffed it returns exactly the
\* original lines, whatever the form of the terminator (for a body within
\* max_message_bytes; a larger one is refused with 552).
DotStuffingRoundTrips ==
  (call.fn = "read_data_block" /\ call.pc = "returned") =>
    /\ Len(Stored(call.wire)) <= call.max =>
         /\ call.result.ok
         /\ call.result.raw = Stored(call.wire)
         /\ call.stuffed => call.result.raw = Flat(call.lines)
    /\ Len(Stored(call.wire)) > call.max =>
         ~call.result.ok /\ call.result.reply = Reply(552, "message too large")

\* A body with a line of a lone dot and a line that starts with two dots came
\* back as it was.
StuffedBodyReturned ==
  /\ call.fn = "read_data_block" /\ call.pc = "returned" /\ call.stuffed
  /\ call.lines = << <<".", "\n">>, <<".", ".", "\n">> >>
  /\ call.result.ok /\ call.result.raw = Flat(call.lines)

\* What a step does to the store is a function of the store and of the
\* arguments of the call alone, no step of a request touches the store, its
\* lock or the feed, and a lagged receiver stays in its loop and continues at
\* the oldest event the ring holds.
StoreUnawareOfReceivers ==
  /\ \A s \in Sessions :
       (sess[s].pc = "add" /\ sess'[s].pc = "locked") =>
         by_mailbox' = add_push(by_mailbox, sess[s].mailbox, sess[s].msg, sess[s].anow)
  /\ \A c \in Clients :
       Returns(c, "delete") =>
         by_mailbox' = delete(by_mailbox, cli'[c].mailbox, cli'[c].id).map
  /\ \A c \in Clients :
       Returns(c, "clear") => by_mailbox' = clear(by_mailbox, cli'[c].mailbox).map
  /\ \A r \in Requests :
       rq'[r] # rq[r] => by_mailbox' = by_mailbox /\ lock' = lock /\ chan' = chan
  /\ \A r \in Requests :
       (rq[r].pc = "wait" /\ Lagging(r) /\ rq'[r] # rq[r]) =>
         /\ rq'[r].pc = "wait"
         /\ rq'[r].next = chan.tail - Capacity
         /\ rq'[r].next > rq[r].next

\* The events delete and clear send.
RemovalSends ==
  { StoreEvent("deleted", <<"a">>, Some(id)) : id \in 1..MaxIds }
    \cup { StoreEvent("cleared", <<"a">>, None) }

\* C22: add, delete and clear complete whatever the receivers do: in every
\* state, with no receiver or with a receiver that has more than the capacity
\* unread, the send that ends an add is enabled and so is the send of a delete
\* or clear (the one conjunct of those calls that involves the receivers), and
\* every step keeps StoreUnawareOfReceivers.
PublishersNeverWait ==
  /\ [](/\ \A s \in Sessions : sess[s].pc = "locked" => ENABLED AddPublish(s)
        /\ \A ev \in RemovalSends : ENABLED send(ev))
  /\ [][StoreUnawareOfReceivers]_vars

\* A delete removed a message and returned while a receiver was more than the
\* capacity behind.
DeletedWhileLagging ==
  /\ \E c \in Clients : Answered(c, "delete") /\ cli[c].n = 1
  /\ \E r \in Requests : rq[r].pc = "wait" /\ Lagging(r)

\* An add completed although no request was waiting: its event was dropped.
AddedWithoutReceiver ==
  /\ \A r \in Requests : rq[r].pc # "wait"
  /\ chan.tail = 0
  /\ \E s \in Sessions : Replied(s) /\ LastReply(s) = Reply(250, "message accepted")

\* Every task has ended: it returned or went with the runtime.
Exited(task) == task \in {"done", "dropped"}

\* C23: once the shutdown flag is set the accept loop, the HTTP server and
\* the pruner each end and main returns; no connection is accepted once the
\* accept loop has left; the step in which it leaves closes no session; and
\* main returns at most ShutdownWait after the signal.
ShutdownCompletes ==
  /\ main.shutdown ~> (/\ Exited(main.smtp_task)
                       /\ Exited(main.http_task)
                       /\ Exited(main.cleanup_task)
                       /\ main.pc = "returned")
  /\ [](main.pc = "shutdown_wait" => now <= main.deadline)
  /\ [](main.pc = "returned" => main.end <= main.at + ShutdownWait)
  /\ [][/\ main'.sessions > main.sessions => main.smtp_task = "run"
        /\ (main.smtp_task = "run" /\ main'.smtp_task = "done") =>
              main'.sessions = main.sessions]_vars

\* main returned at the deadline with the HTTP server still draining a
\* request.
ReturnedUndrained ==
  /\ main.pc = "returned"
  /\ main.http_task = "dropped"
  /\ main.smtp_task = "done"
  /\ main.cleanup_task = "done"
  /\ main.end = main.at + ShutdownWait

\* The accept loop has left and a session it accepted is still alive.
SessionOutlivesLoop ==
  /\ main.smtp_task = "done"
  /\ main.sessions > 0
  /\ main.pc = "shutdown_wait"

\* parse_email has returned for mailbox@domain, bare or wrapped.
ParsedRendered ==
  /\ call.fn = "parse_email" /\ call.pc = "returned"
  /\ call.form # "local"
  /\ validate_mailbox(call.mailbox)

\* normalize_mailbox(mailbox@domain, domain) has returned.
NormalizedRendered ==
  /\ call.fn = "normalize_mailbox" /\ call.pc = "returned"
  /\ call.form = "plain"
  /\ call.expected = call.domain
  /\ validate_mailbox(call.mailbox)

\* A domain that parse_email returns as it is: lower-case, without '@',
\* without whitespace at either end and not ending in '>'.
Canonical(domain) ==
  /\ domain # <<>>
  /\ to_ascii_lowercase(domain) = domain
  /\ trim(domain) = domain
  /\ ~contains(domain, "@")
  /\ domain[Len(domain)] # ">"

\* C24 as stated: the round trip for every non-empty domain.
RoundTripsEveryDomain ==
  /\ ParsedRendered =>
       call.result = [ok |-> TRUE, mailbox |-> call.mailbox, domain |-> call.domain]
  /\ NormalizedRendered =>
       call.result = [ok |-> TRUE, mailbox |-> call.mailbox,
                      address |-> call.mailbox \o <<"@">> \o call.domain]

\* C24: for a mailbox that matches the pattern and a canonical domain,
\* parse_email of mailbox@domain, bare or in angle brackets and whitespace,
\* returns (mailbox, domain), and normalize_mailbox(mailbox@domain, domain)
\* returns (mailbox, mailbox@domain).
RoundTripsCanonicalDomain ==
  /\ (ParsedRendered /\ Canonical(call.domain)) =>
       call.result = [ok |-> TRUE, mailbox |-> call.mailbox, domain |-> call.domain]
  /\ (NormalizedRendered /\ Canonical(call.domain)) =>
       call.result = [ok |-> TRUE, mailbox |-> call.mailbox,
                      address |-> call.mailbox \o <<"@">> \o call.domain]

\* parse_email returned for a padded, bracketed address whose domain starts
\* with an angle bracket.
PaddedAddressParsed ==
  /\ ParsedRendered
  /\ call.form = "padded"
  /\ call.domain = <<"<", "x">>
  /\ call.result.ok

\* C25: an accepted input renders as mailbox@expected_domain when
\* expected_domain is non-empty and as the bare mailbox, without '@', when it
\* is empty, with or without '@' in the input; an input with '@' whose domain
\* is not the non-empty expected_domain is rejected.
RendersExpectedDomain ==
  (call.fn = "normalize_mailbox" /\ call.pc = "returned") =>
    LET expected_domain == to_ascii_lowercase(trim(call.expected))
        p == parse_email(call.input)
    IN /\ (call.result.ok /\ expected_domain # <<>>) =>
            call.result.address = call.result.mailbox \o <<"@">> \o expected_domain
       /\ (call.result.ok /\ expected_domain = <<>>) =>
            /\ call.result.address = call.result.mailbox
            /\ ~contains(call.result.address, "@")
       /\ (contains(call.input, "@") /\ expected_domain # <<>> /\ p.ok
              /\ p.domain # expected_domain) =>
            ~call.result.ok

\* add has returned from a bucket that held max_messages messages, none of
\* them expired at add's now.
AddedToFullBucket ==
  /\ call.fn = "add" /\ call.pc = "returned"
  /\ call.mailbox \in DOMAIN call.store
  /\ Len(call.store[call.mailbox]) = MaxMessages
  /\ \A i \in 1..MaxMessages : Fresh(call.store[call.mailbox][i], call.t)

\* The bucket is left without its oldest message and with the new one at its
\* end.
OldestEvicted ==
  /\ call.mailbox \in DOMAIN call.result
  /\ call.result[call.mailbox] =
       SubSeq(call.store[call.mailbox] \o <<call.message>>, 2, MaxMessages + 1)
  /\ ~Holds(call.result, call.mailbox, call.store[call.mailbox][1].id)

\* C26 as stated: every add into a full bucket of unexpired messages evicts
\* the oldest and keeps the new message.
FullBucketDropsOldest == AddedToFullBucket => OldestEvicted

\* C26: an add of a message that is itself unexpired at add's now, into a
\* bucket that holds max_messages unexpired messages, leaves exactly the
\* max_messages most recently appended messages in append order, the new one
\* last, and the evicted oldest is no longer held.
FreshAddDropsOldest ==
  (AddedToFullBucket /\ Fresh(call.message, call.t)) => OldestEvicted

\* add returned from a full bucket of unexpired messages with a message whose
\* received_at the caller had set, and evicted the oldest.
OldestEvictedByAdd ==
  /\ AddedToFullBucket
  /\ call.message.received_at < call.t
  /\ Fresh(call.message, call.t)
  /\ OldestEvicted

\* The error replies of MAIL.
MailErrors ==
  { Reply(550, "invalid smtp path"), Reply(550, "invalid sender address"),
    Reply(530, "sender domain is blocked") }

\* C27: a command answered with one of the error replies of MAIL leaves the
\* sender and the recipient list of the transaction as they were.
MailErrorKeepsTransaction ==
  [][\A s \in Sessions :
       (sess[s].pc = "cmd" /\ sess'[s].reply # sess[s].reply
          /\ sess'[s].reply # <<>>
          /\ sess'[s].reply[Len(sess'[s].reply)] \in MailErrors) =>
         sess'[s].tx = sess[s].tx]_vars

\* C28: DATA is answered 354 only in a session in which a MAIL command was
\* accepted since the connection started, the last RSET and the last DATA.
DataOnlyAfterMail ==
  [][\A s \in Sessions :
       (sess[s].pc = "cmd" /\ sess'[s].reply # sess[s].reply
          /\ sess'[s].reply # <<>> /\ sess'[s].reply[1].code = 354) =>
         sess[s].mailed]_vars

\* C29: a step that reads a line the client sent after 354 and before the
\* terminating line, when read_data_block has returned without reading it,
\* leaves the transaction, writes no reply and does not close the session.
BodyLinesAreData ==
  [][\A s \in Sessions :
       (sess[s].pc = "stray" /\ sess'[s].unread # sess[s].unread
          /\ Head(sess[s].unread) \notin Terminators) =>
         /\ sess'[s].tx = sess[s].tx
         /\ sess'[s].reply = <<>>
         /\ sess'[s].pc # "closed"]_vars

\* C30: when Store::add sends Added{mailbox, id}, after its push and prune
\* and still under the lock, the bucket of that mailbox holds a message with
\* that id.
AddedIsHeld ==
  \A s \in Sessions :
    sess[s].pc = "locked" => Holds(by_mailbox, sess[s].mailbox, sess[s].msg.id)

\* The channel after one send of ev: the event at the tail of the ring when a
\* receiver exists, nothing otherwise.
Sent(ev) == IF rx_cnt > 0 THEN ring_write(chan, ev) ELSE chan

\* A step in which Store::add sends and returns.
AddReturns(s) == sess[s].pc = "locked" /\ sess'[s].pc # "locked"

\* A step in which a store call of kind op returns to its HTTP handler or to
\* the pruner.
CallReturns(c, op) == cli[c].pc # "done" /\ cli'[c].pc = "done" /\ cli'[c].op = op

\* C31: pruning is silent. A step in which list, get or cleanup_expired
\* returns, or in which add pushes and prunes, leaves the channel as it was,
\* and so does every step that takes a message out of the store other than a
\* delete or a clear; the channel changes only by one Added{mailbox, id} when
\* an add returns, one Deleted{mailbox, id} when a delete returns true and one
\* Cleared{mailbox} when a clear returns a count above zero, and each of these
\* three sends exactly that one event.
PruningIsSilent ==
  [][/\ \A c \in Clients :
          (CallReturns(c, "list") \/ CallReturns(c, "get")
             \/ CallReturns(c, "cleanup")) => chan' = chan
     /\ \A s \in Sessions :
          (sess[s].pc = "add" /\ sess'[s].pc = "locked") => chan' = chan
     /\ (/\ StoredIds(by_mailbox) \ StoredIds(by_mailbox') # {}
         /\ \A c \in Clients : ~CallReturns(c, "delete") /\ ~CallReturns(c, "clear"))
          => chan' = chan
     /\ \A s \in Sessions :
          AddReturns(s) =>
            chan' = Sent(StoreEvent("added", sess[s].mailbox, Some(sess[s].msg.id)))
     /\ \A c \in Clients :
          CallReturns(c, "delete") =>
            chan' = IF cli'[c].n = 1
                      THEN Sent(StoreEvent("deleted", cli'[c].mailbox, Some(cli'[c].id)))
                      ELSE chan
     /\ \A c \in Clients :
          CallReturns(c, "clear") =>
            chan' = IF cli'[c].n > 0
                      THEN Sent(StoreEvent("cleared", cli'[c].mailbox, None))
                      ELSE chan
     /\ chan' # chan =>
          \/ \E s \in Sessions : AddReturns(s)
          \/ \E c \in Clients : CallReturns(c, "delete") \/ CallReturns(c, "clear")]_vars

\* cleanup_expired has returned a count above zero while an events/next
\* request was waiting on its receiver.
PrunedWhileWaiting ==
  \E c \in Clients : \E r \in Requests :
    /\ cli[c].pc = "done" /\ cli[c].op = "cleanup" /\ cli[c].n > 0
    /\ rq[r].pc = "wait"
====
